---- MODULE Spec2Model ----
(***************************************************************************)
(* A model of the cellular SOCKS5 proxy: one SOCKS5 session as             *)
(* Socks5::handle_client and Socks5::server_socks5_connect drive it, the   *)
(* username parser, and the interface-bound outbound connect of tcp.rs.    *)
(* Every await of the handler is one action; the synchronous code between  *)
(* two awaits belongs to the action of the await it follows.               *)
(***************************************************************************)
EXTENDS Integers, Sequences, FiniteSets, TLC

VARIABLES
    iface_map,    \* Socks5.iface_map: identifier (password) -> device name
    fingerprint,  \* Socks5.fingerprint: the default OsFingerprint
    pc,           \* where the session's task stands
    err,          \* the Socks5Error the task ended with, or NoError
    client_open,  \* the client TcpStream is owned by the running handler
    reads,        \* the records the handler has called read_from for, in order
    written,      \* the replies fully written to the client, in order
    hs_req,       \* HandshakeRequest.methods
    pwd_req,      \* PasswordRequest {username, password}, raw bytes
    username,     \* the user parse_username returned
    session_fp,   \* the fingerprint parse_username returned
    password,     \* the password decoded as UTF-8
    auth_ok,      \* the authorization predicate's value
    req,          \* the SOCKS5 Request {command, address}
    socket,       \* the outbound socket of tcp_connect_with_fingerprint
    relay,        \* copy_bidirectional: bytes copied and ended directions
    listener,     \* Socks5::run: the state of the accept loop and the error it returned
    tasks,        \* the session tasks tokio::spawn started, one per accepted connection
    log,          \* the `client {peer} error: {err}` lines the tasks logged
    parse_in,     \* a call of parse_username: its arguments
    parse_out,    \* a call of parse_username: its result
    modem,        \* HuaweiE337 {host, session_token, verification_token, timeout_secs}
    inflight,     \* the method of HuaweiE337 that awaits its HTTP response
    http_log,     \* the HTTP requests the Modem Client has sent, in order
    outcome,      \* the result of the last finished method of HuaweiE337
    main_pc,      \* where main stands
    mutex,        \* the holder of the tokio Mutex around the Modem Client
    handlers,     \* the running handle_reboot_interface requests
    host_ifaces,  \* the interfaces a fresh list_interfaces() returns
    proc          \* the process: main's spawned servers, SIGINT, the exit status

sessionVars == <<iface_map, fingerprint, pc, err, client_open, reads, written, hs_req,
                 pwd_req, username, session_fp, password, auth_ok, req, socket, relay>>

acceptorVars == <<listener, tasks, log>>

parseVars == <<parse_in, parse_out>>

modemVars == <<modem, inflight, http_log, outcome>>

apiVars == <<main_pc, mutex, handlers, host_ifaces>>

\* everything but the state of the one session that Spec follows
procVars == <<proc>>

nonSessionVars == <<acceptorVars, parseVars, modemVars, apiVars, procVars>>

vars == <<sessionVars, acceptorVars, parseVars, modemVars, apiVars, procVars>>

----------------------------------------------------------------------------
(* Bounds *)

\* bytes copy_bidirectional may move in each direction before the model stops counting
MaxRelay == 2

----------------------------------------------------------------------------
(* Protocol constants: RFC 1928 / RFC 1929 values the handler names *)

METHOD_PASSWORD == 2
METHOD_UNACCEPTABLE == 255
SOCKS_VERSION == 5
SUBNEGOTIATION_VERSION == 1
STATUS_SUCCEEDED == 0
STATUS_FAILED == 1
REPLY_SUCCEEDED == 0
REPLY_CONNECTION_NOT_ALLOWED == 2
REPLY_COMMAND_NOT_SUPPORTED == 7

Command == {"Connect", "Bind", "Associate"}

OsFingerprint == {"Windows", "Linux", "Android"}

Socks5Error == {"Listen", "Accept", "Handshake", "UnsupportedMethod", "PasswordRequest",
                "AuthenticationFailed", "PasswordResponseWrite", "RequestRead",
                "InvalidAddress", "Connect", "ResponseWrite", "UnsupportedCommand",
                "CommandNotAllowed", "Utf8"}

NoError == "None"

----------------------------------------------------------------------------
(* Strings are sequences of one-character strings; the element InvalidByte *)
(* stands for a byte that is not valid UTF-8.                              *)

InvalidByte == "xFF"

UpperChars == <<"A", "B", "C", "D", "E", "F", "G", "H", "I", "J", "K", "L", "M",
                "N", "O", "P", "Q", "R", "S", "T", "U", "V", "W", "X", "Y", "Z">>

LowerChars == <<"a", "b", "c", "d", "e", "f", "g", "h", "i", "j", "k", "l", "m",
                "n", "o", "p", "q", "r", "s", "t", "u", "v", "w", "x", "y", "z">>

\* char::to_ascii_lowercase
LowerChar(c) ==
    IF \E i \in 1..Len(UpperChars) : UpperChars[i] = c
    THEN LowerChars[CHOOSE i \in 1..Len(UpperChars) : UpperChars[i] = c]
    ELSE c

\* str::to_ascii_lowercase
ToAsciiLowercase(s) == [i \in 1..Len(s) |-> LowerChar(s[i])]

\* String::from_utf8 succeeds
FromUtf8Ok(bytes) == \A i \in 1..Len(bytes) : bytes[i] # InvalidByte

SEP == <<"-", "f", "i", "n", "g", "e", "r", "p", "r", "i", "n", "t", "-">>

\* variant: the index of the last occurrence
FindLast(s, pat) ==
    LET hits == {i \in 1..(Len(s) - Len(pat) + 1) : SubSeq(s, i, i + Len(pat) - 1) = pat}
    IN  IF hits = {} THEN 0 ELSE CHOOSE i \in hits : \A j \in hits : i >= j

\* str::find: the index of the first occurrence of pat in s, 0 when there is none
Find(s, pat) ==
    LET hits == {i \in 1..(Len(s) - Len(pat) + 1) : SubSeq(s, i, i + Len(pat) - 1) = pat}
    IN  IF hits = {} THEN 0 ELSE CHOOSE i \in hits : \A j \in hits : i <= j

Str_windows == <<"w", "i", "n", "d", "o", "w", "s">>
Str_linux == <<"l", "i", "n", "u", "x">>
Str_android == <<"a", "n", "d", "r", "o", "i", "d">>
Str_modem == <<"m", "o", "d", "e", "m">>

\* the match of parse_username: the fingerprint a lowercased tag names, or "Invalid"
FingerprintOfTag(val) ==
    IF val = Str_windows THEN "Windows"
    ELSE IF val = Str_linux THEN "Linux"
    ELSE IF val = Str_android THEN "Android"
    ELSE "Invalid"

\* variant: a recognised tag is dropped and the default fingerprint is returned
ParseUsernameKeepsDefault(input, default_fp) ==
    LET idx == Find(input, SEP)
    IN  IF idx # 0
        THEN LET name == SubSeq(input, 1, idx - 1)
                 val == SubSeq(input, idx + Len(SEP), Len(input))
                 fpv == FingerprintOfTag(ToAsciiLowercase(val))
             IN  IF fpv = "Invalid"
                 THEN [ok |-> FALSE, user |-> <<>>, fp |-> default_fp,
                       tag |-> ToAsciiLowercase(val)]
                 ELSE [ok |-> TRUE, user |-> name, fp |-> default_fp, tag |-> <<>>]
        ELSE [ok |-> TRUE, user |-> input, fp |-> default_fp, tag |-> <<>>]

\* parse_username(input, fingerprint)
ParseUsername(input, default_fp) ==
    LET idx == Find(input, SEP)
    IN  IF idx # 0
        THEN LET name == SubSeq(input, 1, idx - 1)
                 val == SubSeq(input, idx + Len(SEP), Len(input))
                 fpv == FingerprintOfTag(ToAsciiLowercase(val))
             IN  IF fpv = "Invalid"
                 THEN [ok |-> FALSE, user |-> <<>>, fp |-> default_fp,
                       tag |-> ToAsciiLowercase(val)]
                 ELSE [ok |-> TRUE, user |-> name, fp |-> fpv, tag |-> <<>>]
        ELSE [ok |-> TRUE, user |-> input, fp |-> default_fp, tag |-> <<>>]

----------------------------------------------------------------------------
(* SOCKS5 addresses: Address::SocketAddress or Address::DomainAddress *)

NoAddress == [atyp |-> "none", host |-> "", port |-> ""]

Ipv4Literals == {"93.184.216.34"}

Ipv6Literals == {"::1"}

\* the targets a client may request; a domain-name record may carry any text
Addresses ==
    {[atyp |-> "ipv4", host |-> "93.184.216.34", port |-> "80"],
     [atyp |-> "ipv6", host |-> "::1", port |-> "443"],
     [atyp |-> "domain", host |-> "example.com", port |-> "80"],
     [atyp |-> "domain", host |-> "93.184.216.34", port |-> "80"]}

\* Address::to_string: "host:port", an IPv6 socket address as "[host]:port"
AddressToString(a) ==
    IF a.atyp = "ipv6"
    THEN <<"[", a.host, "]", ":", a.port>>
    ELSE <<a.host, ":", a.port>>

\* str::parse::<SocketAddr>: only a literal IPv4 or bracketed IPv6 address parses
ParseSocketAddr(text) ==
    IF Len(text) = 3 /\ text[2] = ":" /\ text[1] \in Ipv4Literals
    THEN [ok |-> TRUE, ip |-> "V4", host |-> text[1], port |-> text[3]]
    ELSE IF Len(text) = 5 /\ text[1] = "[" /\ text[3] = "]" /\ text[4] = ":"
            /\ text[2] \in Ipv6Literals
    THEN [ok |-> TRUE, ip |-> "V6", host |-> text[2], port |-> text[5]]
    ELSE [ok |-> FALSE, ip |-> "none", host |-> "", port |-> ""]

----------------------------------------------------------------------------
(* The replies the handler writes *)

\* HandshakeResponse::new(method): VER METHOD
HandshakeResponse(method) ==
    [kind |-> "method", ver |-> SOCKS_VERSION, code |-> method, addr |-> NoAddress]

\* PasswordResponse::new(status): VER STATUS
PasswordResponse(status) ==
    [kind |-> "auth", ver |-> SUBNEGOTIATION_VERSION,
     code |-> IF status THEN STATUS_SUCCEEDED ELSE STATUS_FAILED, addr |-> NoAddress]

\* Response::new(reply, address): VER REP RSV ATYP BND.ADDR BND.PORT
Response(reply, address) ==
    [kind |-> "reply", ver |-> SOCKS_VERSION, code |-> reply, addr |-> address]

----------------------------------------------------------------------------
(* The Interface Binder: tcp_connect_with_fingerprint and apply_fingerprint_opts. *)
(* os names the step at which the operating system returns an error, or "none".  *)

BinderSteps == <<"socket", "nodelay", "keepalive", "bindtodevice",
                 "ip_ttl", "so_sndbuf", "so_rcvbuf", "connect">>

OsOutcomes == {BinderSteps[i] : i \in 1..Len(BinderSteps)} \cup {"none"}

NoSocket ==
    [created |-> FALSE, family |-> "none", nodelay |-> FALSE, keepalive |-> FALSE,
     device |-> "", ttl |-> 0, sndbuf |-> 0, rcvbuf |-> 0, ops |-> <<>>,
     failed |-> "none", connect_called |-> FALSE, connected |-> FALSE, open |-> FALSE]

\* variant: Linux and Android get each other's buffer size
FingerprintOptsSwapped(fp) ==
    CASE fp = "Windows" -> [ttl |-> 128, buf |-> 64 * 1024]
      [] fp = "Linux" -> [ttl |-> 64, buf |-> 44800]
      [] fp = "Android" -> [ttl |-> 64, buf |-> 29200]

\* the (ttl, buf) table of apply_fingerprint_opts
FingerprintOpts(fp) ==
    CASE fp = "Windows" -> [ttl |-> 128, buf |-> 64 * 1024]
      [] fp = "Linux" -> [ttl |-> 64, buf |-> 29200]
      [] fp = "Android" -> [ttl |-> 64, buf |-> 44800]

\* an error return: the socket is dropped, which closes it
BinderErr(s, step) == [ok |-> FALSE, sock |-> [s EXCEPT !.failed = step, !.open = FALSE]]

BinderOk(s) == [ok |-> TRUE, sock |-> s]

\* setsockopt(SO_BINDTODEVICE): the return value and the socket afterwards
SetsockoptBindToDevice(s, ifname, os) ==
    IF os = "bindtodevice"
    THEN [ret |-> -1, sock |-> [s EXCEPT !.ops = Append(@, "bindtodevice")]]
    ELSE [ret |-> 0, sock |-> [s EXCEPT !.device = ifname, !.ops = Append(@, "bindtodevice")]]

\* variant: the return value of setsockopt is not checked
BindCheckIgnored(ret) == FALSE

\* `if ret != 0 { return Err(..) }`
BindCheckFails(ret) == ret # 0

\* variant: a failing option is skipped and the next one is tried
ApplyFingerprintOptsBestEffort(s, fp, os) ==
    LET o == FingerprintOpts(fp)
        s1 == [s EXCEPT !.ops = @ \o <<"ip_ttl", "so_sndbuf", "so_rcvbuf">>]
    IN  BinderOk([s1 EXCEPT !.ttl = IF os = "ip_ttl" THEN 0 ELSE o.ttl,
                            !.sndbuf = IF os = "so_sndbuf" THEN 0 ELSE o.buf,
                            !.rcvbuf = IF os = "so_rcvbuf" THEN 0 ELSE o.buf])

\* apply_fingerprint_opts(fd, fp)
ApplyFingerprintOpts(s, fp, os) ==
    LET o == FingerprintOpts(fp)
        s1 == [s EXCEPT !.ops = Append(@, "ip_ttl")]
    IN  IF os = "ip_ttl" THEN BinderErr(s1, "ip_ttl")
        ELSE LET s2 == [s1 EXCEPT !.ttl = o.ttl, !.ops = Append(@, "so_sndbuf")]
             IN  IF os = "so_sndbuf" THEN BinderErr(s2, "so_sndbuf")
                 ELSE LET s3 == [s2 EXCEPT !.sndbuf = o.buf, !.ops = Append(@, "so_rcvbuf")]
                      IN  IF os = "so_rcvbuf" THEN BinderErr(s3, "so_rcvbuf")
                          ELSE BinderOk([s3 EXCEPT !.rcvbuf = o.buf])

\* tcp_connect_with_fingerprint up to the call of socket.connect, which it awaits
TcpConnectWithFingerprint(remote_addr, ifname, fp, os) ==
    IF os = "socket" THEN BinderErr(NoSocket, "socket")
    ELSE
    LET s0 == [NoSocket EXCEPT !.created = TRUE, !.open = TRUE,
                               !.family = remote_addr.ip, !.ops = <<"socket">>]
        s1 == [s0 EXCEPT !.ops = Append(@, "nodelay")]
    IN  IF os = "nodelay" THEN BinderErr(s1, "nodelay")
        ELSE
        LET s2 == [s1 EXCEPT !.nodelay = TRUE, !.ops = Append(@, "keepalive")]
        IN  IF os = "keepalive" THEN BinderErr(s2, "keepalive")
            ELSE
            LET s3 == [s2 EXCEPT !.keepalive = TRUE]
                b == SetsockoptBindToDevice(s3, ifname, os)
            IN  IF BindCheckFails(b.ret) THEN BinderErr(b.sock, "bindtodevice")
                ELSE
                LET f == ApplyFingerprintOpts(b.sock, fp, os)
                IN  IF ~f.ok THEN f
                    ELSE BinderOk([f.sock EXCEPT !.connect_called = TRUE,
                                                 !.ops = Append(@, "connect")])

----------------------------------------------------------------------------
(* What the environment may supply *)

\* interface identifiers (the keys of the Interface Map, used as passwords)
Id_A == <<"A">>
Id_B == <<"B">>
Id_Z == <<"Z">>

\* the maps list_interfaces may have returned at startup
IfaceMaps == {(Id_A :> "enxA"), (Id_A :> "enxA") @@ (Id_B :> "enxB")}

\* the method lists a greeting may offer; 0 is NO AUTHENTICATION REQUIRED
MethodSets == {{0}, {METHOD_PASSWORD}, {0, METHOD_PASSWORD}}

Usernames ==
    {Str_modem,
     <<"M", "o", "d", "e", "m">>,
     <<"a", "d", "m", "i", "n">>,
     Str_modem \o SEP \o <<"L", "i", "n", "u", "x">>,
     Str_modem \o SEP \o <<"b", "s", "d">>,
     <<"a", "d", "m", "i", "n">> \o SEP \o Str_android,
     <<"m", "o", InvalidByte>>}

Passwords == {Id_A, Id_B, Id_Z, <<InvalidByte>>}

Requests == [command : Command, address : Addresses]

NoRequest == [command |-> "none", address |-> NoAddress]

NoPasswordRequest == [username |-> <<>>, password |-> <<>>]

NoRelay == [c2o |-> 0, o2c |-> 0, c2o_done |-> FALSE, o2c_done |-> FALSE]

----------------------------------------------------------------------------
(* Socks5::run: the listener is bound and no connection has been accepted *)

\* a session task before its connection is accepted
SessionFresh ==
    /\ pc = "Accepting"
    /\ err = NoError
    /\ client_open = FALSE
    /\ reads = <<>>
    /\ written = <<>>
    /\ hs_req = {}
    /\ pwd_req = NoPasswordRequest
    /\ username = <<>>
    /\ session_fp = fingerprint
    /\ password = <<>>
    /\ auth_ok = FALSE
    /\ req = NoRequest
    /\ socket = NoSocket
    /\ relay = NoRelay

SessionInit ==
    /\ iface_map \in IfaceMaps
    /\ fingerprint \in OsFingerprint
    /\ SessionFresh

\* variant: the outbound socket is kept when the task returns an error
FailKeepsSocket(e, sock) ==
    /\ pc' = "Failed"
    /\ err' = e
    /\ client_open' = FALSE
    /\ socket' = sock

\* the task returns Err(e): its streams are dropped, which closes them
Fail(e, sock) ==
    /\ pc' = "Failed"
    /\ err' = e
    /\ client_open' = FALSE
    /\ socket' = [sock EXCEPT !.open = FALSE]

\* listener.accept() returns; on Ok the session's task is spawned
Accept ==
    /\ pc = "Accepting"
    /\ \E ok \in BOOLEAN :
        IF ok
        THEN /\ pc' = "Greeting"
             /\ client_open' = TRUE
             /\ err' = err
        ELSE /\ pc' = "Stopped"
             /\ err' = "Accept"
             /\ client_open' = FALSE
    /\ UNCHANGED <<iface_map, fingerprint, reads, written, hs_req, pwd_req, username,
                   session_fp, password, auth_ok, req, socket, relay>>
    /\ UNCHANGED nonSessionVars

\* variant: any method the server knows is taken as acceptable
HasAnyKnownMethod(methods) == \E m \in methods : m \in {0, METHOD_PASSWORD}

\* `.any(|&m| m == HandshakeMethod::PASSWORD)`
HasPasswordMethod(methods) == \E m \in methods : m = METHOD_PASSWORD

\* 1) HandshakeRequest::read_from returns
ReadHandshake ==
    /\ pc = "Greeting"
    /\ reads' = Append(reads, "handshake")
    /\ \/ /\ Fail("Handshake", socket)
          /\ hs_req' = hs_req
       \/ \E methods \in MethodSets :
            /\ hs_req' = methods
            /\ pc' = "MethodReply"
            /\ UNCHANGED <<err, client_open, socket>>
    /\ UNCHANGED <<iface_map, fingerprint, written, pwd_req, username, session_fp,
                   password, auth_ok, req, relay>>
    /\ UNCHANGED nonSessionVars

\* 2), 3) the write of the HandshakeResponse returns
WriteMethodReply ==
    /\ pc = "MethodReply"
    /\ \E ok \in BOOLEAN :
        IF ~ok
        THEN /\ Fail("ResponseWrite", socket)
             /\ written' = written
        ELSE IF ~HasPasswordMethod(hs_req)
        THEN /\ written' = Append(written, HandshakeResponse(METHOD_UNACCEPTABLE))
             /\ Fail("UnsupportedMethod", socket)
        ELSE /\ written' = Append(written, HandshakeResponse(METHOD_PASSWORD))
             /\ pc' = "AuthRequest"
             /\ UNCHANGED <<err, client_open, socket>>
    /\ UNCHANGED <<iface_map, fingerprint, reads, hs_req, pwd_req, username, session_fp,
                   password, auth_ok, req, relay>>
    /\ UNCHANGED nonSessionVars

\* variant: the password is not looked up in the map
AuthOkUserOnly(user, pass, map) == user = Str_modem

\* `username == "modem" && iface_map.contains_key(&password)`
AuthOk(user, pass, map) == user = Str_modem /\ pass \in DOMAIN map

\* 4), 5) PasswordRequest::read_from returns; decode, parse and validate
ReadPassword ==
    /\ pc = "AuthRequest"
    /\ reads' = Append(reads, "password")
    /\ \/ /\ Fail("PasswordRequest", socket)
          /\ UNCHANGED <<pwd_req, username, session_fp, password, auth_ok>>
       \/ \E u \in Usernames, p \in Passwords :
            /\ pwd_req' = [username |-> u, password |-> p]
            /\ IF ~FromUtf8Ok(u) \/ ~FromUtf8Ok(p)
               THEN /\ Fail("Utf8", socket)
                    /\ UNCHANGED <<username, session_fp, password, auth_ok>>
               ELSE LET parsed == ParseUsername(u, fingerprint)
                    IN  IF ~parsed.ok
                        THEN /\ Fail("AuthenticationFailed", socket)
                             /\ password' = p
                             /\ UNCHANGED <<username, session_fp, auth_ok>>
                        ELSE /\ username' = parsed.user
                             /\ session_fp' = parsed.fp
                             /\ password' = p
                             /\ auth_ok' = AuthOk(parsed.user, p, iface_map)
                             /\ pc' = "AuthReply"
                             /\ UNCHANGED <<err, client_open, socket>>
    /\ UNCHANGED <<iface_map, fingerprint, written, hs_req, req, relay>>
    /\ UNCHANGED nonSessionVars

\* the write of the PasswordResponse returns
WriteAuthReply ==
    /\ pc = "AuthReply"
    /\ \E ok \in BOOLEAN :
        IF ~ok
        THEN /\ Fail("PasswordResponseWrite", socket)
             /\ written' = written
        ELSE /\ written' = Append(written, PasswordResponse(auth_ok))
             /\ IF ~auth_ok
                THEN Fail("AuthenticationFailed", socket)
                ELSE /\ pc' = "CmdRequest"
                     /\ UNCHANGED <<err, client_open, socket>>
    /\ UNCHANGED <<iface_map, fingerprint, reads, hs_req, pwd_req, username, session_fp,
                   password, auth_ok, req, relay>>
    /\ UNCHANGED nonSessionVars

\* variant: Associate falls into the catch-all arm
CmdReplyCodeNoAssociateArm(cmd) ==
    CASE cmd = "Connect" -> REPLY_SUCCEEDED
      [] OTHER -> REPLY_COMMAND_NOT_SUPPORTED

\* 8) the reply each arm of `match req.command` writes
CmdReplyCode(cmd) ==
    CASE cmd = "Connect" -> REPLY_SUCCEEDED
      [] cmd = "Associate" -> REPLY_CONNECTION_NOT_ALLOWED
      [] OTHER -> REPLY_COMMAND_NOT_SUPPORTED

\* the error the Associate arm and the catch-all arm return after their reply
CmdError(cmd) == IF cmd = "Associate" THEN "CommandNotAllowed" ELSE "UnsupportedCommand"

\* 6), 7), 8) Request::read_from returns; dispatch on the command. For Connect,
\* server_socks5_connect parses the target and prepares the bound socket.
ReadRequest ==
    /\ pc = "CmdRequest"
    /\ reads' = Append(reads, "request")
    /\ \/ /\ Fail("RequestRead", socket)
          /\ req' = req
       \/ \E r \in Requests, os \in OsOutcomes :
            /\ req' = r
            /\ IF r.command = "Connect"
               THEN LET ifname == iface_map[password]
                        sock_addr == ParseSocketAddr(AddressToString(r.address))
                    IN  IF ~sock_addr.ok
                        THEN Fail("InvalidAddress", socket)
                        ELSE LET b == TcpConnectWithFingerprint(sock_addr, ifname,
                                                                session_fp, os)
                             IN  IF ~b.ok
                                 THEN Fail("Connect", b.sock)
                                 ELSE /\ socket' = b.sock
                                      /\ pc' = "ConnectingOutbound"
                                      /\ UNCHANGED <<err, client_open>>
               ELSE /\ pc' = "CmdReply"
                    /\ UNCHANGED <<err, client_open, socket>>
    /\ UNCHANGED <<iface_map, fingerprint, written, hs_req, pwd_req, username,
                   session_fp, password, auth_ok, relay>>
    /\ UNCHANGED nonSessionVars

\* socket.connect(remote_addr) returns
ConnectDone ==
    /\ pc = "ConnectingOutbound"
    /\ \E os \in {"none", "connect"} :
        IF os = "connect"
        THEN Fail("Connect", [socket EXCEPT !.failed = "connect"])
        ELSE /\ socket' = [socket EXCEPT !.connected = TRUE]
             /\ pc' = "CmdReply"
             /\ UNCHANGED <<err, client_open>>
    /\ UNCHANGED <<iface_map, fingerprint, reads, written, hs_req, pwd_req, username,
                   session_fp, password, auth_ok, req, relay>>
    /\ UNCHANGED nonSessionVars

\* variant: the unspecified address is reported as the bound address
BoundAddressUnspecified(requested_addr) == [atyp |-> "ipv4", host |-> "0.0.0.0", port |-> "0"]

\* the address server_socks5_connect puts in the Succeeded reply
BoundAddress(requested_addr) == requested_addr

\* the address of the reply written for command cmd
ReplyAddress(cmd, address) == IF cmd = "Connect" THEN BoundAddress(address) ELSE address

\* variant: the result of the write is not checked
AfterCmdReplyUnchecked(cmd, ok) ==
    IF cmd = "Connect" THEN [pc |-> "Relaying", err |-> NoError]
    ELSE [pc |-> "Failed", err |-> CmdError(cmd)]

\* variant: after refusing a command the handler reads the next request
AfterCmdReplyReadNext(cmd, ok) ==
    IF ~ok THEN [pc |-> "Failed", err |-> "ResponseWrite"]
    ELSE IF cmd = "Connect" THEN [pc |-> "Relaying", err |-> NoError]
    ELSE [pc |-> "CmdRequest", err |-> NoError]

\* what follows a write of the command reply that returned ok or not
AfterCmdReply(cmd, ok) ==
    IF ~ok THEN [pc |-> "Failed", err |-> "ResponseWrite"]
    ELSE IF cmd = "Connect" THEN [pc |-> "Relaying", err |-> NoError]
    ELSE [pc |-> "Failed", err |-> CmdError(cmd)]

\* the write of the Response returns: Succeeded after the connect, or the
\* refusal of Associate and of every other command
WriteCmdReply ==
    /\ pc = "CmdReply"
    /\ \E ok \in BOOLEAN :
        LET next == AfterCmdReply(req.command, ok)
        IN  /\ written' = IF ok
                          THEN Append(written, Response(CmdReplyCode(req.command),
                                               ReplyAddress(req.command, req.address)))
                          ELSE written
            /\ IF next.pc = "Failed"
               THEN Fail(next.err, socket)
               ELSE /\ pc' = next.pc
                    /\ UNCHANGED <<err, client_open, socket>>
    /\ UNCHANGED <<iface_map, fingerprint, reads, hs_req, pwd_req, username, session_fp,
                   password, auth_ok, req, relay>>
    /\ UNCHANGED nonSessionVars

Directions == {"c2o", "o2c"}

Copied(r, dir) == IF dir = "c2o" THEN r.c2o ELSE r.o2c

Done(r, dir) == IF dir = "c2o" THEN r.c2o_done ELSE r.o2c_done

\* copy_bidirectional moves one byte in direction dir
RelayCopy(dir) ==
    /\ pc = "Relaying"
    /\ ~Done(relay, dir)
    /\ Copied(relay, dir) < MaxRelay
    /\ relay' = IF dir = "c2o" THEN [relay EXCEPT !.c2o = @ + 1]
                               ELSE [relay EXCEPT !.o2c = @ + 1]
    /\ UNCHANGED <<iface_map, fingerprint, pc, err, client_open, reads, written, hs_req,
                   pwd_req, username, session_fp, password, auth_ok, req, socket>>
    /\ UNCHANGED nonSessionVars

\* variant: the relay returns as soon as either direction reads end-of-file
RelayEofEither(dir) ==
    /\ pc = "Relaying"
    /\ ~Done(relay, dir)
    /\ relay' = IF dir = "c2o" THEN [relay EXCEPT !.c2o_done = TRUE]
                               ELSE [relay EXCEPT !.o2c_done = TRUE]
    /\ pc' = "Closed"
    /\ client_open' = FALSE
    /\ socket' = [socket EXCEPT !.open = FALSE]
    /\ err' = err
    /\ UNCHANGED <<iface_map, fingerprint, reads, written, hs_req, pwd_req, username,
                   session_fp, password, auth_ok, req>>
    /\ UNCHANGED nonSessionVars

\* direction dir reads end-of-file; copy_bidirectional returns Ok once both have
RelayEof(dir) ==
    /\ pc = "Relaying"
    /\ ~Done(relay, dir)
    /\ relay' = IF dir = "c2o" THEN [relay EXCEPT !.c2o_done = TRUE]
                               ELSE [relay EXCEPT !.o2c_done = TRUE]
    /\ IF relay'.c2o_done /\ relay'.o2c_done
       THEN /\ pc' = "Closed"
            /\ client_open' = FALSE
            /\ socket' = [socket EXCEPT !.open = FALSE]
            /\ err' = err
       ELSE UNCHANGED <<pc, err, client_open, socket>>
    /\ UNCHANGED <<iface_map, fingerprint, reads, written, hs_req, pwd_req, username,
                   session_fp, password, auth_ok, req>>
    /\ UNCHANGED nonSessionVars

\* a read or write of the relay fails: `.map_err(Socks5Error::Connect)`
RelayError ==
    /\ pc = "Relaying"
    /\ Fail("Connect", socket)
    /\ UNCHANGED <<iface_map, fingerprint, reads, written, hs_req, pwd_req, username,
                   session_fp, password, auth_ok, req, relay>>
    /\ UNCHANGED nonSessionVars

----------------------------------------------------------------------------
(* The parts of the program a specification does not follow stay as built *)

\* the accept loop with its listener bound and no task spawned
AcceptorIdle ==
    /\ listener = [state |-> "Listening", err |-> NoError]
    /\ tasks = <<>>
    /\ log = {}

NoParseResult == [done |-> FALSE, ok |-> FALSE, user |-> <<>>, fp |-> "Windows", tag |-> <<>>]

\* no call of parse_username under way
ParserIdle ==
    /\ parse_in = [raw |-> <<>>, default_fp |-> "Windows"]
    /\ parse_out = NoParseResult

\* Option::None of a token
None == "None"

\* HuaweiE337::new(host, timeout_secs)
HuaweiE337New(host, timeout_secs) ==
    [host |-> host, session_token |-> None, verification_token |-> None,
     timeout_secs |-> timeout_secs]

NoCall == [op |-> "none", by |-> 0]

\* no response: what a call that sent nothing has to show
NoResponse ==
    [send_ok |-> FALSE, header |-> "absent", text_ok |-> FALSE, xml |-> <<>>, body |-> <<>>]

NoOutcome ==
    [op |-> "none", by |-> 0, ok |-> FALSE, error |-> "none", body |-> <<>>,
     sent |-> FALSE, resp |-> NoResponse]

\* the Modem Client as constructed, no method called
ModemIdle ==
    /\ modem = HuaweiE337New("192.168.8.1", "30")
    /\ inflight = NoCall
    /\ http_log = <<>>
    /\ outcome = NoOutcome

\* main before it has run, no request at the Control API
\* the process before main has spawned anything
ProcIdle ==
    proc = [api |-> "none", metrics |-> "none", ctrl_c |-> FALSE, sigints |-> 0,
            exit |-> "running"]

ApiIdle ==
    /\ main_pc = "start"
    /\ mutex = 0
    /\ handlers = <<>>
    /\ host_ifaces = {}

\* one session's view: Socks5::run has bound its listener
Init ==
    /\ SessionInit
    /\ AcceptorIdle
    /\ ParserIdle
    /\ ModemIdle
    /\ ApiIdle
    /\ ProcIdle

Next ==
    \/ Accept
    \/ ReadHandshake
    \/ WriteMethodReply
    \/ ReadPassword
    \/ WriteAuthReply
    \/ ReadRequest
    \/ ConnectDone
    \/ WriteCmdReply
    \/ \E dir \in Directions : RelayCopy(dir)
    \/ \E dir \in Directions : RelayEof(dir)
    \/ RelayError

Spec == Init /\ [][Next]_vars

----------------------------------------------------------------------------
(* Properties of a session *)

Terminal == pc \in {"Closed", "Failed"}

\* a reply of the given kind and code has been fully written to the client
HasReply(kind, code) ==
    \E i \in DOMAIN written : written[i].kind = kind /\ written[i].code = code

Msg(kind, ver, code, addr) == [kind |-> kind, ver |-> ver, code |-> code, addr |-> addr]

\* the position of step x in a socket's log of operations, 0 when absent
IndexOf(ops, x) ==
    IF \E i \in DOMAIN ops : ops[i] = x THEN CHOOSE i \in DOMAIN ops : ops[i] = x ELSE 0

RelayStarted ==
    \/ pc = "Relaying"
    \/ relay.c2o > 0 \/ relay.o2c > 0
    \/ relay.c2o_done \/ relay.o2c_done

\* C1: no byte is copied between client and outbound, in either direction, before
\* the outbound connect has returned success and the Succeeded reply has been
\* fully written to the client.
C1_NoRelayBeforeReply ==
    RelayStarted =>
        /\ socket.connected
        /\ socket.failed = "none"
        /\ written # <<>>
        /\ written[Len(written)].kind = "reply"
        /\ written[Len(written)].code = 0

C1_Witness == relay.c2o > 0 /\ relay.o2c > 0

\* C2: an outbound stream comes from a socket bound, before connect was attempted,
\* to exactly the device iface_map[password]; when the bind-to-device fails the
\* error is returned, connect is never attempted and no outbound stream exists.
C2_BoundToMappedDevice ==
    /\ socket.connected => socket.connect_called
    /\ socket.connect_called =>
        /\ password \in DOMAIN iface_map
        /\ socket.device = iface_map[password]
        /\ IndexOf(socket.ops, "bindtodevice") > 0
        /\ IndexOf(socket.ops, "bindtodevice") < IndexOf(socket.ops, "connect")
    /\ socket.failed = "bindtodevice" =>
        /\ ~socket.connect_called
        /\ ~socket.connected
        /\ ~socket.open
        /\ pc = "Failed"
        /\ err = "Connect"

C2_Witness == socket.connected /\ password = Id_B /\ socket.device = "enxB"

C4_NoAcceptableMethods ==
    (hs_req # {} /\ 2 \notin hs_req) =>
        /\ reads = <<"handshake">>
        /\ pc \in {"MethodReply", "Failed"}
        /\ pc = "MethodReply" => written = <<>>
        /\ pc = "Failed" =>
            /\ ~client_open
            /\ \/ err = "ResponseWrite" /\ written = <<>>
               \/ err = "UnsupportedMethod" /\ written = <<Msg("method", 5, 255, NoAddress)>>

C4_Witness ==
    /\ hs_req = {0}
    /\ pc = "Failed"
    /\ written = <<Msg("method", 5, 255, NoAddress)>>

\* the credentials a session read are an authentication failure
AuthFailureInput ==
    \/ ~FromUtf8Ok(pwd_req.username)
    \/ ~FromUtf8Ok(pwd_req.password)
    \/ ~ParseUsername(pwd_req.username, fingerprint).ok
    \/ ParseUsername(pwd_req.username, fingerprint).user # Str_modem
    \/ pwd_req.password \notin DOMAIN iface_map

\* C5: every authentication failure (user other than "modem", password not in the
\* Interface Map, username or password not valid UTF-8, unknown fingerprint tag)
\* has the RFC 1929 failure reply (0x01) written before the connection closes.
C5_AuthFailureReplied ==
    (/\ pwd_req # NoPasswordRequest
     /\ AuthFailureInput
     /\ Terminal
     /\ err # "PasswordResponseWrite") =>
        /\ ~client_open
        /\ HasReply("auth", 1)

\* C6: a session whose password is not a key of the Interface Map writes the auth
\* reply 0x01 0x01, closes the client socket and never creates an outbound socket;
\* no outbound socket is created in a session that wrote no auth success reply.
C6_UnknownPasswordRefused ==
    /\ (/\ pwd_req # NoPasswordRequest
        /\ pwd_req.password \notin DOMAIN iface_map
        /\ Terminal
        /\ err # "PasswordResponseWrite") =>
            /\ written[Len(written)] = Msg("auth", 1, 1, NoAddress)
            /\ ~client_open
            /\ ~socket.created
    /\ socket.created => HasReply("auth", 0)

\* C7: after successful authentication ASSOCIATE is answered with reply 0x02 and
\* any other non-CONNECT command with 0x07; the session then closes and no
\* outbound socket is created.
C7_NonConnectRefused ==
    (req # NoRequest /\ req.command # "Connect") =>
        /\ HasReply("auth", 0)
        /\ ~socket.created
        /\ pc \in {"CmdReply", "Failed"}
        /\ pc = "CmdReply" => Len(written) = 2
        /\ pc = "Failed" =>
            /\ ~client_open
            /\ \/ err = "ResponseWrite" /\ Len(written) = 2
               \/ /\ Len(written) = 3
                  /\ written[3].kind = "reply"
                  /\ written[3].ver = 5
                  /\ written[3].code = IF req.command = "Associate" THEN 2 ELSE 7

C7_Witness ==
    /\ req.command = "Associate"
    /\ pc = "Failed"
    /\ Len(written) = 3
    /\ written[3].code = 2

\* C8: an authenticated CONNECT whose target does not parse as a literal IPv4/IPv6
\* socket address gets a reply with code General failure (0x01), then the session
\* closes without creating an outbound socket.
C8_DomainTargetGeneralFailure ==
    (/\ req.command = "Connect"
     /\ ~ParseSocketAddr(AddressToString(req.address)).ok
     /\ Terminal) =>
        /\ ~socket.created
        /\ ~client_open
        /\ HasReply("reply", 1)

\* C9: whenever the Interface Binder returns an OS error (socket creation, option
\* setting, bind-to-device or connect failure) the session writes a reply with
\* code General failure (0x01) to the client and then closes.
C9_BinderErrorGeneralFailure ==
    (socket.failed # "none" /\ Terminal) =>
        /\ ~client_open
        /\ HasReply("reply", 1)

\* the three replies of a session whose CONNECT succeeded
HappyPathReplies ==
    <<Msg("method", 5, 2, NoAddress), Msg("auth", 1, 0, NoAddress),
      Msg("reply", 5, 0, req.address)>>

\* C10: in a session that offers 0x02, authenticates as "modem" with a mapped
\* password and requests CONNECT to a literal IP target that connects, the replies
\* written before relaying are exactly 0x05 0x02, then 0x01 0x00, then one Succeeded
\* reply whose bound address is the requested address; the Succeeded reply is
\* written only after the outbound connect has succeeded.
C10_HappyPathReplies ==
    /\ socket.connected =>
        /\ 2 \in hs_req
        /\ username = Str_modem
        /\ password \in DOMAIN iface_map
        /\ req.command = "Connect"
        /\ IF pc = "CmdReply" \/ (pc = "Failed" /\ err = "ResponseWrite")
           THEN written = SubSeq(HappyPathReplies, 1, 2)
           ELSE written = HappyPathReplies
    /\ HasReply("reply", 0) => socket.connected
    /\ RelayStarted => written = HappyPathReplies

C10_Witness ==
    /\ pc = "Relaying"
    /\ relay = NoRelay
    /\ req.address = [atyp |-> "ipv4", host |-> "93.184.216.34", port |-> "80"]
    /\ written = HappyPathReplies

\* the session states of the design, in their order
StateOrder == <<"Greeting", "MethodReply", "AuthRequest", "AuthReply", "CmdRequest",
                "ConnectingOutbound", "CmdReply", "Relaying", "Closed">>

Rank(p) == IndexOf(StateOrder, p)

\* a change of state allowed by the strict order: the session starts, moves to the
\* next state of the list, or ends
LinearStep ==
    \/ pc = "Accepting"
    \/ Rank(pc) > 0 /\ Rank(pc') = Rank(pc) + 1
    \/ pc' \in {"Closed", "Failed"}

\* C11: a session moves through Greeting, MethodReply, AuthRequest, AuthReply,
\* CmdRequest, ConnectingOutbound, CmdReply, Relaying, Closed strictly in that order:
\* every transition goes to the next state of the list or to Closed or Failed, no
\* state is entered twice, and nothing is retried after an error.
C11_StrictlyLinear ==
    [][/\ pc \notin {"Closed", "Failed"}
       /\ pc' # pc => LinearStep]_vars

\* C11 as amended: as above, except that the refusal of a non-CONNECT command goes
\* from CmdRequest to CmdReply without passing through ConnectingOutbound.
C11_LinearButRefusal ==
    [][/\ pc \notin {"Closed", "Failed"}
       /\ pc' # pc =>
            \/ LinearStep
            \/ pc = "CmdRequest" /\ pc' = "CmdReply" /\ req'.command # "Connect"]_vars

C11_Witness == pc = "CmdReply" /\ req.command = "Associate" /\ ~socket.created

Other(dir) == IF dir = "c2o" THEN "o2c" ELSE "c2o"

\* C12: the two directions of the relay are copied independently: end-of-file on
\* one does not stop the copying of the other, which goes on until it too ends; the
\* relay finishes normally, and both streams are closed, only once both have ended.
C12_IndependentDirections ==
    /\ \A dir \in Directions :
        (pc = "Relaying" /\ Done(relay, dir) /\ ~Done(relay, Other(dir))) =>
            /\ client_open
            /\ socket.open
            /\ Copied(relay, Other(dir)) < MaxRelay => ENABLED RelayCopy(Other(dir))
            /\ ENABLED RelayEof(Other(dir))
    /\ pc = "Closed" =>
        /\ relay.c2o_done /\ relay.o2c_done
        /\ ~client_open
        /\ ~socket.open
    /\ (RelayStarted /\ pc # "Failed" /\ ~(relay.c2o_done /\ relay.o2c_done)) =>
        /\ pc = "Relaying"
        /\ client_open
        /\ socket.open

C12_Witness ==
    /\ pc = "Relaying"
    /\ relay.c2o_done
    /\ ~relay.o2c_done
    /\ relay.o2c > 0

\* C13: in every terminal state of a session, whichever exit path was taken, the
\* client stream is closed and the outbound stream, if one was created, is closed.
C13_NoOpenStreamAtExit ==
    Terminal =>
        /\ ~client_open
        /\ ~socket.open

C13_Witness == pc = "Failed" /\ socket.created /\ socket.failed = "connect"

----------------------------------------------------------------------------
(* The Acceptor: Socks5::run with the tasks it spawns. A task is followed only *)
(* as far as the loop can see it: running, returned Ok, or returned an error.  *)

\* connections the listener accepts before the model stops accepting
MaxConns == 3

\* the session state other specifications leave untouched
SessionUnused == SessionInit /\ iface_map = (Id_A :> "enxA") /\ fingerprint = "Windows"

\* the errors handle_client can return
TaskErrors == Socks5Error \ {"Listen", "Accept"}

FailedTasks == {i \in DOMAIN tasks : tasks[i].state = "failed"}

AcceptorInit ==
    /\ SessionInit
    /\ fingerprint = "Windows"
    /\ listener = [state |-> "Unbound", err |-> NoError]
    /\ tasks = <<>>
    /\ log = {}
    /\ ParserIdle
    /\ ModemIdle
    /\ ApiIdle
    /\ ProcIdle

\* TcpListener::bind(self.listen_addr).await.map_err(Socks5Error::Listen)?
RunBind ==
    /\ listener.state = "Unbound"
    /\ \E ok \in BOOLEAN :
        listener' = IF ok THEN [state |-> "Listening", err |-> NoError]
                          ELSE [state |-> "Stopped", err |-> "Listen"]
    /\ UNCHANGED <<tasks, log>>
    /\ UNCHANGED <<procVars, sessionVars, parseVars, modemVars, apiVars>>

\* one turn of the loop: accept, clone the map for the connection, spawn its task
RunAccept ==
    /\ listener.state = "Listening"
    /\ Len(tasks) < MaxConns
    /\ \E ok \in BOOLEAN :
        IF ok
        THEN /\ tasks' = Append(tasks, [state |-> "running", err |-> NoError,
                                        iface_map |-> iface_map,
                                        failures_before |-> Cardinality(FailedTasks)])
             /\ listener' = listener
        ELSE /\ listener' = [state |-> "Stopped", err |-> "Accept"]
             /\ tasks' = tasks
    /\ log' = log
    /\ UNCHANGED <<procVars, sessionVars, parseVars, modemVars, apiVars>>

\* variant: the handler's error is returned from the loop instead of being logged
TaskFinishStopsLoop(i) ==
    /\ i \in DOMAIN tasks
    /\ tasks[i].state = "running"
    /\ \E r \in {"ok"} \cup TaskErrors :
        IF r = "ok"
        THEN /\ tasks' = [tasks EXCEPT ![i].state = "done"]
             /\ UNCHANGED <<log, listener>>
        ELSE /\ tasks' = [tasks EXCEPT ![i].state = "failed", ![i].err = r]
             /\ log' = log
             /\ listener' = [state |-> "Stopped", err |-> r]
    /\ UNCHANGED <<procVars, sessionVars, parseVars, modemVars, apiVars>>

\* the spawned task ends: `if let Err(err) = server.handle_client(..).await { error!(..) }`
TaskFinish(i) ==
    /\ i \in DOMAIN tasks
    /\ tasks[i].state = "running"
    /\ \E r \in {"ok"} \cup TaskErrors :
        IF r = "ok"
        THEN /\ tasks' = [tasks EXCEPT ![i].state = "done"]
             /\ log' = log
        ELSE /\ tasks' = [tasks EXCEPT ![i].state = "failed", ![i].err = r]
             /\ log' = log \cup {[peer |-> i, err |-> r]}
    /\ listener' = listener
    /\ UNCHANGED <<procVars, sessionVars, parseVars, modemVars, apiVars>>

AcceptorNext ==
    \/ RunBind
    \/ RunAccept
    \/ \E i \in 1..MaxConns : TaskFinish(i)

AcceptorSpec == AcceptorInit /\ [][AcceptorNext]_vars

\* C14: a failure of any session never stops the accept loop and never affects
\* another session: after any number of failed sessions, interleaved in any order
\* with running ones, the Acceptor is still accepting and each later connection gets
\* its own session task.
C14_SessionFailureIsolated ==
    /\ [](listener.state = "Stopped" => listener.err \in {"Listen", "Accept"})
    /\ []((listener.state = "Listening" /\ Len(tasks) < MaxConns) => ENABLED RunAccept)
    /\ [][\A i \in DOMAIN tasks :
            (tasks[i].state = "running" /\ tasks'[i].state # "running") =>
                /\ listener' = listener
                /\ \A j \in DOMAIN tasks \ {i} : tasks'[j] = tasks[j]]_vars
    /\ [][Len(tasks') # Len(tasks) =>
            /\ Len(tasks') = Len(tasks) + 1
            /\ tasks'[Len(tasks')].state = "running"
            /\ \A j \in DOMAIN tasks : tasks'[j] = tasks[j]]_vars

C14_Witness ==
    /\ listener.state = "Listening"
    /\ \E i \in DOMAIN tasks :
        /\ tasks[i].state = "running"
        /\ tasks[i].failures_before > 0
        /\ \E j \in DOMAIN tasks : j > i /\ tasks[j].state = "failed"

----------------------------------------------------------------------------
(* The Username Parser on its own: parse_username applied to one input.        *)

Str_macos == <<"m", "a", "c", "o", "s">>
Str_ios == <<"i", "o", "s">>
Str_bsd == <<"b", "s", "d">>

UpperChar(c) ==
    IF \E i \in 1..Len(LowerChars) : LowerChars[i] = c
    THEN UpperChars[CHOOSE i \in 1..Len(LowerChars) : LowerChars[i] = c]
    ELSE c

ToAsciiUppercase(s) == [i \in 1..Len(s) |-> UpperChar(s[i])]

\* the letter cases a tag is tried in: windows, WINDOWS, Windows, wINDOWS
Casings(s) ==
    {s, ToAsciiUppercase(s),
     [i \in 1..Len(s) |-> IF i = 1 THEN UpperChar(s[i]) ELSE s[i]],
     [i \in 1..Len(s) |-> IF i = 1 THEN s[i] ELSE UpperChar(s[i])]}

ParseTags == UNION {Casings(t) : t \in {Str_windows, Str_linux, Str_android,
                                          Str_macos, Str_ios, Str_bsd}}

\* users: "modem", "", "Bob", "x-fingerprint", "a-fingerprint-b"
ParseUsers ==
    {Str_modem, <<>>, <<"B", "o", "b">>,
     <<"x">> \o SubSeq(SEP, 1, Len(SEP) - 1),
     <<"a">> \o SEP \o <<"b">>}

ParseInputs == ParseUsers \cup {u \o SEP \o t : u \in ParseUsers, t \in ParseTags}

ParseInit ==
    /\ SessionUnused
    /\ AcceptorIdle
    /\ parse_in \in [raw : ParseInputs, default_fp : OsFingerprint]
    /\ parse_out = NoParseResult
    /\ ModemIdle
    /\ ApiIdle
    /\ ProcIdle

\* the call parse_username(input, fingerprint)
Parse ==
    /\ ~parse_out.done
    /\ parse_out' = [done |-> TRUE] @@ ParseUsername(parse_in.raw, parse_in.default_fp)
    /\ parse_in' = parse_in
    /\ UNCHANGED <<procVars, sessionVars, acceptorVars, modemVars, apiVars>>

ParseNext == Parse

ParseSpec == ParseInit /\ [][ParseNext]_vars

\* the profile a tag of the claim's closed set names, in any letter case
ProfileNamed(t) ==
    IF t \in Casings(Str_windows) THEN "Windows"
    ELSE IF t \in Casings(Str_linux) THEN "Linux"
    ELSE IF t \in Casings(Str_android) THEN "Android"
    ELSE IF t \in Casings(Str_macos) THEN "MacOS"
    ELSE IF t \in Casings(Str_ios) THEN "IOS"
    ELSE "Invalid"

----------------------------------------------------------------------------
(* The Modem Client: HuaweiE337. An XML body is the sequence of its elements,  *)
(* a reboot body is its characters; a response is what reqwest can hand back.  *)

\* calls made on one client before the model stops calling
MaxCalls == 3

Path_SesTokInfo == "/api/webserver/SesTokInfo"
Path_publickey == "/api/webserver/publickey"
Path_control == "/api/device/control"

\* a header value HeaderValue::to_str rejects (not visible ASCII)
NonAscii == "xE9"

\* element text read_text cannot decode
Undecodable == "undecodable"

Malformed == [tag |-> "malformed", text |-> ""]

Elem(tag, text) == [tag |-> tag, text |-> text]

\* get_value_from_tag(xml, tag): the text of the first element named tag
GetValueFromTag(xml, tag) ==
    LET stops == {i \in 1..Len(xml) : xml[i].tag = tag \/ xml[i] = Malformed}
        first == CHOOSE i \in stops : \A j \in stops : i <= j
    IN  IF stops = {} THEN [res |-> "err", value |-> None]
        ELSE IF xml[first] = Malformed THEN [res |-> "err", value |-> None]
        ELSE IF xml[first].text = Undecodable THEN [res |-> "panic", value |-> None]
        ELSE [res |-> "ok", value |-> xml[first].text]

Lit_ResponseOK ==
    <<"<", "r", "e", "s", "p", "o", "n", "s", "e", ">", "O", "K",
      "<", "/", "r", "e", "s", "p", "o", "n", "s", "e", ">">>

\* variant: the body must be exactly the literal
ContainsWhole(s, pat) == s = pat

\* str::contains
Contains(s, pat) == Find(s, pat) # 0

\* bodies of the answer to POST /api/device/control
RebootBodies ==
    {Lit_ResponseOK,
     <<"<", "x", ">">> \o Lit_ResponseOK \o <<"<", "/", "x", ">">>,
     [i \in 1..Len(Lit_ResponseOK) |-> IF i = 11 THEN "o" ELSE Lit_ResponseOK[i]],
     SubSeq(Lit_ResponseOK, 1, Len(Lit_ResponseOK) - 1),
     <<"<", "e", "r", "r", "o", "r", "/", ">">>,
     <<>>}

\* bodies of the answer to GET /api/webserver/SesTokInfo
SesTokDocs ==
    {<<Elem("SesInfo", "S"), Elem("TokInfo", "T")>>,
     <<Elem("TokInfo", "T"), Elem("response", ""), Elem("SesInfo", "S")>>,
     <<Elem("SesInfo", "S2")>>,
     <<Elem("TokInfo", "T")>>,
     <<Elem("SesInfo", "S"), Malformed>>,
     <<Elem("SesInfo", Undecodable), Elem("TokInfo", "T")>>,
     <<>>}

\* bodies of the answer to GET /api/webserver/publickey; "junk" decodes as neither
\* base64 nor hex
KeyDocs ==
    {<<Elem("encpubkeyn", "b64"), Elem("encpubkeye", "hex")>>,
     <<Elem("encpubkeyn", "hex"), Elem("encpubkeye", "b64")>>,
     <<Elem("encpubkeyn", "junk"), Elem("encpubkeye", "hex")>>,
     <<Elem("encpubkeyn", "b64")>>,
     <<>>}

\* values of the response header __RequestVerificationToken
HeaderValues == {"absent", "T2", NonAscii}

Responses(xmls, bodies) ==
    [send_ok : BOOLEAN, header : HeaderValues, text_ok : BOOLEAN,
     xml : xmls, body : bodies]

Request(method, path, m, with_tokens) ==
    [method |-> method, path |-> path,
     cookie |-> IF with_tokens THEN m.session_token ELSE None,
     token |-> IF with_tokens THEN m.verification_token ELSE None]

Result(m, ok, error, body) == [modem |-> m, ok |-> ok, error |-> error, body |-> body]

\* variant: only the session token is looked at
TokensMissingSessionOnly(m) == m.session_token = None

\* self.session_token.is_none() || self.verification_token.is_none()
TokensMissing(m) == m.session_token = None \/ m.verification_token = None

\* variant: the header is never looked at
UpdateVerificationTokenKeeps(m, header) == m

\* `if let Some(new_token) = resp.headers().get(..) { self.verification_token = .. }`
\* for a header value to_str accepts
UpdateVerificationToken(m, header) ==
    IF header = "absent" THEN m ELSE [m EXCEPT !.verification_token = header]

\* variant: the two tokens are stored together, after both tags were read
RefreshSessionTokenAtomic(m, resp) ==
    IF ~resp.send_ok \/ ~resp.text_ok THEN Result(m, FALSE, "http", <<>>)
    ELSE LET ses == GetValueFromTag(resp.xml, "SesInfo")
             tok == GetValueFromTag(resp.xml, "TokInfo")
         IN  IF ses.res # "ok" THEN Result(m, FALSE, ses.res, <<>>)
             ELSE IF tok.res # "ok" THEN Result(m, FALSE, tok.res, <<>>)
             ELSE Result([m EXCEPT !.session_token = ses.value,
                                   !.verification_token = tok.value], TRUE, "none", <<>>)

\* variant: a failed refresh forgets the tokens
RefreshSessionTokenClears(m, resp) ==
    LET cleared == [m EXCEPT !.session_token = None, !.verification_token = None]
    IN  IF ~resp.send_ok \/ ~resp.text_ok THEN Result(cleared, FALSE, "http", <<>>)
        ELSE LET ses == GetValueFromTag(resp.xml, "SesInfo")
                 tok == GetValueFromTag(resp.xml, "TokInfo")
             IN  IF ses.res # "ok" THEN Result(cleared, FALSE, ses.res, <<>>)
                 ELSE IF tok.res # "ok" THEN Result(cleared, FALSE, tok.res, <<>>)
                 ELSE Result([m EXCEPT !.session_token = ses.value,
                                       !.verification_token = tok.value], TRUE, "none", <<>>)

\* refresh_session_token once the request is sent: the client and the result
RefreshSessionToken(m, resp) ==
    IF ~resp.send_ok \/ ~resp.text_ok THEN Result(m, FALSE, "http", <<>>)
    ELSE LET ses == GetValueFromTag(resp.xml, "SesInfo")
             m1 == [m EXCEPT !.session_token = ses.value]
             tok == GetValueFromTag(resp.xml, "TokInfo")
         IN  IF ses.res # "ok" THEN Result(m, FALSE, ses.res, <<>>)
             ELSE IF tok.res # "ok" THEN Result(m1, FALSE, tok.res, <<>>)
             ELSE Result([m1 EXCEPT !.verification_token = tok.value], TRUE, "none", <<>>)

\* variant: the token header is taken only when the body is OK
RebootTokenAfterBody(m, resp) ==
    IF ~resp.send_ok THEN Result(m, FALSE, "http", <<>>)
    ELSE IF resp.header = NonAscii THEN Result(m, FALSE, "header", <<>>)
    ELSE IF ~resp.text_ok THEN Result(m, FALSE, "http", <<>>)
    ELSE IF ~Contains(resp.body, Lit_ResponseOK)
         THEN Result(m, FALSE, "reconnect_failed", resp.body)
         ELSE Result(UpdateVerificationToken(m, resp.header), TRUE, "none", <<>>)

\* reboot() once the POST is sent
Reboot(m, resp) ==
    IF ~resp.send_ok THEN Result(m, FALSE, "http", <<>>)
    ELSE IF resp.header = NonAscii THEN Result(m, FALSE, "header", <<>>)
    ELSE LET m1 == UpdateVerificationToken(m, resp.header)
         IN  IF ~resp.text_ok THEN Result(m1, FALSE, "http", <<>>)
             ELSE IF ~Contains(resp.body, Lit_ResponseOK)
                  THEN Result(m1, FALSE, "reconnect_failed", resp.body)
                  ELSE Result(m1, TRUE, "none", <<>>)

\* base64 or hex decoding of a key component
Decodes(text) == text \in {"b64", "hex"}

\* encrypt_with_public_key once the GET is sent; rsa_ok: public_encrypt succeeds
EncryptWithPublicKey(m, resp, rsa_ok) ==
    IF ~resp.send_ok THEN Result(m, FALSE, "http", <<>>)
    ELSE IF resp.header = NonAscii THEN Result(m, FALSE, "header", <<>>)
    ELSE LET m1 == UpdateVerificationToken(m, resp.header)
             n == GetValueFromTag(resp.xml, "encpubkeyn")
             e == GetValueFromTag(resp.xml, "encpubkeye")
         IN  IF ~resp.text_ok THEN Result(m1, FALSE, "http", <<>>)
             ELSE IF n.res # "ok" THEN Result(m1, FALSE, n.res, <<>>)
             ELSE IF e.res # "ok" THEN Result(m1, FALSE, e.res, <<>>)
             ELSE IF ~Decodes(n.value) \/ ~Decodes(e.value)
                  THEN Result(m1, FALSE, "decode", <<>>)
             ELSE IF ~rsa_ok THEN Result(m1, FALSE, "openssl", <<>>)
             ELSE Result(m1, TRUE, "none", <<>>)

CallsMade == IF inflight.op # "none" THEN inflight.by ELSE outcome.by

\* a call can start: none is running, the client was not lost to a panic
CanCall ==
    /\ inflight = NoCall
    /\ outcome.error # "panic"
    /\ CallsMade < MaxCalls

\* the call returns r; resp is the response it got when its request was sent
Returned(op, by, r, sent, resp) ==
    [op |-> op, by |-> by, ok |-> r.ok, error |-> r.error, body |-> r.body,
     sent |-> sent, resp |-> resp]

ClientInit ==
    /\ SessionUnused
    /\ AcceptorIdle
    /\ ParserIdle
    /\ ModemIdle
    /\ ApiIdle
    /\ ProcIdle

\* init(): the GET of SesTokInfo goes out, with no token header
InitStart ==
    /\ CanCall
    /\ inflight' = [op |-> "init", by |-> CallsMade + 1]
    /\ http_log' = Append(http_log, Request("GET", Path_SesTokInfo, modem, FALSE))
    /\ UNCHANGED <<modem, outcome>>
    /\ UNCHANGED <<procVars, sessionVars, acceptorVars, parseVars, apiVars>>

InitFinish ==
    /\ inflight.op = "init"
    /\ \E resp \in Responses(SesTokDocs, {<<>>}) :
        LET r == RefreshSessionToken(modem, resp)
        IN  /\ modem' = r.modem
            /\ outcome' = Returned("init", inflight.by, r, TRUE, resp)
    /\ inflight' = NoCall
    /\ http_log' = http_log
    /\ UNCHANGED <<procVars, sessionVars, acceptorVars, parseVars, apiVars>>

\* reboot() up to its first await: the token check, then the POST
RebootStart ==
    /\ CanCall
    /\ IF TokensMissing(modem)
       THEN /\ outcome' = Returned("reboot", CallsMade + 1,
                                   Result(modem, FALSE, "missing_tokens", <<>>),
                                   FALSE, NoResponse)
            /\ UNCHANGED <<inflight, http_log>>
       ELSE /\ inflight' = [op |-> "reboot", by |-> CallsMade + 1]
            /\ http_log' = Append(http_log, Request("POST", Path_control, modem, TRUE))
            /\ outcome' = outcome
    /\ modem' = modem
    /\ UNCHANGED <<procVars, sessionVars, acceptorVars, parseVars, apiVars>>

RebootFinish ==
    /\ inflight.op = "reboot"
    /\ \E resp \in Responses({<<>>}, RebootBodies) :
        LET r == Reboot(modem, resp)
        IN  /\ modem' = r.modem
            /\ outcome' = Returned("reboot", inflight.by, r, TRUE, resp)
    /\ inflight' = NoCall
    /\ http_log' = http_log
    /\ UNCHANGED <<procVars, sessionVars, acceptorVars, parseVars, apiVars>>

\* encrypt_with_public_key up to its first await: the token match, then the GET
EncryptStart ==
    /\ CanCall
    /\ IF TokensMissing(modem)
       THEN /\ outcome' = Returned("encrypt", CallsMade + 1,
                                   Result(modem, FALSE, "missing_tokens", <<>>),
                                   FALSE, NoResponse)
            /\ UNCHANGED <<inflight, http_log>>
       ELSE /\ inflight' = [op |-> "encrypt", by |-> CallsMade + 1]
            /\ http_log' = Append(http_log, Request("GET", Path_publickey, modem, TRUE))
            /\ outcome' = outcome
    /\ modem' = modem
    /\ UNCHANGED <<procVars, sessionVars, acceptorVars, parseVars, apiVars>>

EncryptFinish ==
    /\ inflight.op = "encrypt"
    /\ \E resp \in Responses(KeyDocs, {<<>>}), rsa_ok \in BOOLEAN :
        LET r == EncryptWithPublicKey(modem, resp, rsa_ok)
        IN  /\ modem' = r.modem
            /\ outcome' = Returned("encrypt", inflight.by, r, TRUE, resp)
    /\ inflight' = NoCall
    /\ http_log' = http_log
    /\ UNCHANGED <<procVars, sessionVars, acceptorVars, parseVars, apiVars>>

ClientNext ==
    \/ InitStart
    \/ InitFinish
    \/ RebootStart
    \/ RebootFinish
    \/ EncryptStart
    \/ EncryptFinish

ClientSpec == ClientInit /\ [][ClientNext]_vars

\* a call starts in this step: the operation it is
CallStarts == CallsMade' = CallsMade + 1

StartedOp == IF inflight.op # "none" THEN inflight.op ELSE outcome.op

BothTokensSet == modem.session_token # None /\ modem.verification_token # None

LastRequest == http_log[Len(http_log)]

\* with a token missing, reboot() and encrypt return an error and send nothing
MissingTokenFailsUnsent ==
    (CallStarts /\ ~BothTokensSet /\ StartedOp' \in {"reboot", "encrypt"})
    => /\ http_log' = http_log
       /\ inflight' = NoCall
       /\ ~outcome'.ok
       /\ outcome'.error = "missing_tokens"
       /\ ~outcome'.sent

\* C15: the Modem Client never sends a modem API request unless both
\* session_token and verification_token are set; when either is missing, reboot()
\* and the public-key encrypt operation return an error without sending any HTTP
\* request.
C15_NoRequestWithoutTokens ==
    /\ [][Len(http_log') > Len(http_log) => BothTokensSet]_vars
    /\ [][MissingTokenFailsUnsent]_vars

\* C15 as the code has it: every request other than init's SesTokInfo fetch is sent
\* with both tokens set and carries them; init's fetch is sent whatever the tokens
\* are and carries none; with a token missing, reboot() and encrypt return an error
\* and send nothing.
C15_NoRequestWithoutTokensButInit ==
    /\ [][Len(http_log') > Len(http_log) =>
            IF LastRequest'.path = Path_SesTokInfo
            THEN /\ StartedOp' = "init"
                 /\ LastRequest'.cookie = None
                 /\ LastRequest'.token = None
            ELSE /\ BothTokensSet
                 /\ LastRequest'.cookie = modem.session_token
                 /\ LastRequest'.token = modem.verification_token]_vars
    /\ [][MissingTokenFailsUnsent]_vars

C15_Witness ==
    /\ outcome.op = "reboot"
    /\ outcome.error = "missing_tokens"
    /\ modem.session_token # None
    /\ modem.verification_token = None
    /\ Len(http_log) = 1

\* the last call sent its request and got a response with the token header
GotHeader == outcome.sent /\ outcome.resp.send_ok /\ outcome.resp.header # "absent"

\* scenario: the POST of reboot() is answered with header T2 and an OK body
RebootAnsweredT2 ==
    /\ outcome.op = "reboot"
    /\ outcome.sent
    /\ outcome.resp.send_ok
    /\ outcome.resp.header = "T2"
    /\ outcome.resp.text_ok
    /\ Find(outcome.resp.body, Lit_ResponseOK) # 0

\* C16: after any request the Modem Client makes (init's SesTokInfo fetch, the
\* public-key fetch, the reboot POST), if the response carries a
\* __RequestVerificationToken header then verification_token equals that header's
\* value once the call returns; in particular after a reboot() answered with header
\* T2 and an OK body, reboot() returns success and verification_token = T2.
C16_HeaderUpdatesToken ==
    /\ GotHeader => modem.verification_token = outcome.resp.header
    /\ RebootAnsweredT2 => outcome.ok /\ modem.verification_token = "T2"

\* C16 as the code has it: the header is taken after the public-key fetch and the
\* reboot POST, when its value is a string to_str accepts; init ignores the header
\* and on success stores the text of <TokInfo>; the T2 scenario holds.
C16_HeaderUpdatesTokenButInit ==
    /\ (GotHeader /\ outcome.op \in {"reboot", "encrypt"} /\ outcome.resp.header # NonAscii)
       => modem.verification_token = outcome.resp.header
    /\ (outcome.op = "init" /\ outcome.ok)
       => \E i \in DOMAIN outcome.resp.xml :
            outcome.resp.xml[i] = Elem("TokInfo", modem.verification_token)
    /\ RebootAnsweredT2 => outcome.ok /\ modem.verification_token = "T2"

C16_Witness ==
    /\ RebootAnsweredT2
    /\ outcome.ok
    /\ modem.verification_token = "T2"
    /\ http_log[Len(http_log)].token = "T"

\* the last call was a reboot() whose POST was answered and whose body was read
RebootGotBody ==
    /\ outcome.op = "reboot"
    /\ outcome.sent
    /\ outcome.resp.send_ok
    /\ outcome.resp.text_ok

BodyHasOK == Find(outcome.resp.body, Lit_ResponseOK) # 0

\* C17: with both tokens set, reboot() returns success if and only if the body of
\* the response to POST /api/device/control contains the literal substring
\* <response>OK</response>; for any other body it returns a failure that carries the
\* raw body.
C17_SuccessIffBodyOK ==
    RebootGotBody =>
        /\ outcome.ok <=> BodyHasOK
        /\ ~BodyHasOK => outcome.body = outcome.resp.body

\* C17 as the code has it: the same, for a response whose
\* __RequestVerificationToken header, when present, has a value to_str accepts.
C17_SuccessIffBodyOKValidHeader ==
    (RebootGotBody /\ outcome.resp.header # NonAscii) =>
        /\ outcome.ok <=> BodyHasOK
        /\ ~BodyHasOK => outcome.error = "reconnect_failed" /\ outcome.body = outcome.resp.body

C17_Witness ==
    /\ RebootGotBody
    /\ outcome.ok
    /\ outcome.resp.body # Lit_ResponseOK
    /\ outcome.resp.header = "absent"

----------------------------------------------------------------------------
(* The Control API: main builds the client, calls init() and hands it to the   *)
(* API behind one mutex; each POST /api/v1/devices/{id}/reboot is a handler.    *)

\* reboot requests the API receives before the model stops sending them
MaxRequests == 2

HostNames == {"enxA", "eth0"}

\* Uuid::new_v5(&Uuid::NAMESPACE_URL, name): one id per name
Uuid5(name) ==
    IF name = "enxA" THEN Id_A
    ELSE IF name = "enxB" THEN Id_B
    ELSE <<"E">>

\* iface.name.starts_with("enx")
StartsWithEnx(name) == name \in {"enxA", "enxB"}

\* list_interfaces() over the interfaces get_if_addrs reports
ListInterfaces(names) ==
    LET kept == {n \in names : StartsWithEnx(n)}
    IN  [id \in {Uuid5(n) : n \in kept} |-> CHOOSE n \in kept : Uuid5(n) = id]

\* the ids a request may name: a modem interface, another interface, nothing
RequestIds == {Id_A, Uuid5("eth0"), Id_Z}

\* answers of the modem to the POST of a handler's reboot()
ApiResponses ==
    {r \in Responses({<<>>}, {Lit_ResponseOK, <<>>}) :
        r.send_ok \/ (r.header = "absent" /\ r.text_ok /\ r.body = <<>>)}

NewHandler(id) ==
    [pc |-> "lookup", id |-> id, status |-> 0, acquired |-> FALSE,
     reboots |-> 0, result |-> "none"]

\* variant: every reboot() result is answered 200
StatusOfAlwaysOK(ok) == 200

\* Ok(Json(..)) is 200, ApiError::internal is 500
StatusOf(ok) == IF ok THEN 200 ELSE 500

ApiInit ==
    /\ SessionUnused
    /\ AcceptorIdle
    /\ ParserIdle
    /\ ModemIdle
    /\ main_pc = "start"
    /\ mutex = 0
    /\ handlers = <<>>
    /\ host_ifaces \in SUBSET HostNames
    /\ ProcIdle

\* the interfaces of the host come and go
HostChange ==
    /\ \E n \in HostNames :
        host_ifaces' = IF n \in host_ifaces THEN host_ifaces \ {n} ELSE host_ifaces \cup {n}
    /\ UNCHANGED <<main_pc, mutex, handlers>>
    /\ UNCHANGED <<procVars, sessionVars, acceptorVars, parseVars, modemVars>>

\* main: HuaweiE337::new(..), then init() sends its request
MainInitStart ==
    /\ main_pc = "start"
    /\ main_pc' = "init"
    /\ inflight' = [op |-> "init", by |-> 0]
    /\ http_log' = Append(http_log, Request("GET", Path_SesTokInfo, modem, FALSE))
    /\ UNCHANGED <<modem, outcome, mutex, handlers, host_ifaces>>
    /\ UNCHANGED <<procVars, sessionVars, acceptorVars, parseVars>>

\* main: `init().await?`, then the API is built around Arc<Mutex<modem>> and spawned
MainInitFinish ==
    /\ main_pc = "init"
    /\ \E resp \in Responses(SesTokDocs, {<<>>}) :
        LET r == RefreshSessionToken(modem, resp)
        IN  /\ modem' = r.modem
            /\ outcome' = Returned("init", 0, r, TRUE, resp)
            /\ main_pc' = IF r.ok THEN "binding" ELSE "exited"
    /\ inflight' = NoCall
    /\ UNCHANGED <<http_log, mutex, handlers, host_ifaces>>
    /\ UNCHANGED <<procVars, sessionVars, acceptorVars, parseVars>>

\* API::run: TcpListener::bind(self.addr); a failure panics the API task only
ApiBind ==
    /\ main_pc = "binding"
    /\ \E ok \in BOOLEAN : main_pc' = IF ok THEN "serving" ELSE "api_down"
    /\ UNCHANGED <<mutex, handlers, host_ifaces>>
    /\ UNCHANGED <<procVars, sessionVars, acceptorVars, parseVars, modemVars>>

\* a POST /api/v1/devices/{id}/reboot arrives
Arrive ==
    /\ main_pc = "serving"
    /\ Len(handlers) < MaxRequests
    /\ \E id \in RequestIds : handlers' = Append(handlers, NewHandler(id))
    /\ UNCHANGED <<main_pc, mutex, host_ifaces>>
    /\ UNCHANGED <<procVars, sessionVars, acceptorVars, parseVars, modemVars>>

\* handle_reboot_interface up to lock(): list_interfaces() (whose unwrap panics when
\* get_if_addrs fails), then the lookup of id
Lookup(h) ==
    /\ h \in DOMAIN handlers
    /\ handlers[h].pc = "lookup"
    /\ \E enum_ok \in BOOLEAN :
        handlers' =
            IF ~enum_ok THEN [handlers EXCEPT ![h].pc = "panicked"]
            ELSE IF handlers[h].id \in DOMAIN ListInterfaces(host_ifaces)
                 THEN [handlers EXCEPT ![h].pc = "locking"]
                 ELSE [handlers EXCEPT ![h].pc = "done", ![h].status = 404]
    /\ UNCHANGED <<main_pc, mutex, host_ifaces>>
    /\ UNCHANGED <<procVars, sessionVars, acceptorVars, parseVars, modemVars>>

\* variant: the client is used without waiting for the mutex
LockAndStartNoWait(h) ==
    /\ h \in DOMAIN handlers
    /\ handlers[h].pc = "locking"
    /\ IF TokensMissing(modem)
       THEN /\ outcome' = Returned("reboot", h, Result(modem, FALSE, "missing_tokens", <<>>),
                                   FALSE, NoResponse)
            /\ handlers' = [handlers EXCEPT ![h].pc = "done",
                                            ![h].status = StatusOf(FALSE),
                                            ![h].acquired = TRUE,
                                            ![h].reboots = @ + 1,
                                            ![h].result = "err"]
            /\ UNCHANGED <<mutex, inflight, http_log>>
       ELSE /\ mutex' = h
            /\ inflight' = [op |-> "reboot", by |-> h]
            /\ http_log' = Append(http_log, Request("POST", Path_control, modem, TRUE))
            /\ handlers' = [handlers EXCEPT ![h].pc = "rebooting",
                                            ![h].acquired = TRUE,
                                            ![h].reboots = @ + 1]
            /\ outcome' = outcome
    /\ UNCHANGED <<modem, main_pc, host_ifaces>>
    /\ UNCHANGED <<procVars, sessionVars, acceptorVars, parseVars>>

\* `state.modem.lock().await` completes, and reboot() runs to its first await: the
\* token check, then the POST; an early error drops the guard in the same step
LockAndStart(h) ==
    /\ h \in DOMAIN handlers
    /\ handlers[h].pc = "locking"
    /\ mutex = 0
    /\ IF TokensMissing(modem)
       THEN /\ outcome' = Returned("reboot", h, Result(modem, FALSE, "missing_tokens", <<>>),
                                   FALSE, NoResponse)
            /\ handlers' = [handlers EXCEPT ![h].pc = "done",
                                            ![h].status = StatusOf(FALSE),
                                            ![h].acquired = TRUE,
                                            ![h].reboots = @ + 1,
                                            ![h].result = "err"]
            /\ UNCHANGED <<mutex, inflight, http_log>>
       ELSE /\ mutex' = h
            /\ inflight' = [op |-> "reboot", by |-> h]
            /\ http_log' = Append(http_log, Request("POST", Path_control, modem, TRUE))
            /\ handlers' = [handlers EXCEPT ![h].pc = "rebooting",
                                            ![h].acquired = TRUE,
                                            ![h].reboots = @ + 1]
            /\ outcome' = outcome
    /\ UNCHANGED <<modem, main_pc, host_ifaces>>
    /\ UNCHANGED <<procVars, sessionVars, acceptorVars, parseVars>>

\* variant: the guard outlives a failed reboot()
HandlerRebootFinishKeepsOnError(h) ==
    /\ h \in DOMAIN handlers
    /\ handlers[h].pc = "rebooting"
    /\ inflight = [op |-> "reboot", by |-> h]
    /\ \E resp \in ApiResponses :
        LET r == Reboot(modem, resp)
        IN  /\ modem' = r.modem
            /\ outcome' = Returned("reboot", h, r, TRUE, resp)
            /\ handlers' = [handlers EXCEPT ![h].pc = "done",
                                            ![h].status = StatusOf(r.ok),
                                            ![h].result = IF r.ok THEN "ok" ELSE "err"]
            /\ mutex' = IF r.ok THEN 0 ELSE mutex
    /\ inflight' = NoCall
    /\ UNCHANGED <<http_log, main_pc, host_ifaces>>
    /\ UNCHANGED <<procVars, sessionVars, acceptorVars, parseVars>>

\* reboot() returns; the guard is dropped at the end of the statement and the
\* handler answers
HandlerRebootFinish(h) ==
    /\ h \in DOMAIN handlers
    /\ handlers[h].pc = "rebooting"
    /\ inflight = [op |-> "reboot", by |-> h]
    /\ \E resp \in ApiResponses :
        LET r == Reboot(modem, resp)
        IN  /\ modem' = r.modem
            /\ outcome' = Returned("reboot", h, r, TRUE, resp)
            /\ handlers' = [handlers EXCEPT ![h].pc = "done",
                                            ![h].status = StatusOf(r.ok),
                                            ![h].result = IF r.ok THEN "ok" ELSE "err"]
    /\ inflight' = NoCall
    /\ mutex' = 0
    /\ UNCHANGED <<http_log, main_pc, host_ifaces>>
    /\ UNCHANGED <<procVars, sessionVars, acceptorVars, parseVars>>

\* the client goes away and the handler's future is dropped at an await: a waiting
\* handler leaves the queue, a rebooting one drops the guard, with the token header
\* of a response already taken or not
HandlerCancel(h) ==
    /\ h \in DOMAIN handlers
    /\ handlers[h].pc \in {"locking", "rebooting"}
    /\ handlers' = [handlers EXCEPT ![h].pc = "cancelled"]
    /\ IF handlers[h].pc = "rebooting"
       THEN /\ mutex' = 0
            /\ inflight' = NoCall
            /\ modem' \in {UpdateVerificationToken(modem, v) : v \in HeaderValues \ {NonAscii}}
       ELSE UNCHANGED <<mutex, inflight, modem>>
    /\ UNCHANGED <<http_log, outcome, main_pc, host_ifaces>>
    /\ UNCHANGED <<procVars, sessionVars, acceptorVars, parseVars>>

ApiNext ==
    \/ HostChange
    \/ MainInitStart
    \/ MainInitFinish
    \/ ApiBind
    \/ Arrive
    \/ \E h \in 1..MaxRequests : Lookup(h)
    \/ \E h \in 1..MaxRequests : LockAndStart(h)
    \/ \E h \in 1..MaxRequests : HandlerRebootFinish(h)
    \/ \E h \in 1..MaxRequests : HandlerCancel(h)

ApiSpec == ApiInit /\ [][ApiNext]_vars

Rebooting == {h \in DOMAIN handlers : handlers[h].pc = "rebooting"}

\* C18: for any number of concurrent reboot requests, at most one reboot() call on
\* the shared Modem Client is in progress at any time: the mutex is held from before
\* reboot() starts until it returns, a request arriving meanwhile waits on the mutex,
\* and the token state is never read or written by two calls at once.
C18_RebootSerialised ==
    /\ [](Cardinality(Rebooting) <= 1)
    /\ [](\A h \in Rebooting : mutex = h /\ inflight = [op |-> "reboot", by |-> h])
    /\ [](inflight.op = "reboot" => mutex = inflight.by /\ inflight.by \in Rebooting)
    /\ [](\A h \in DOMAIN handlers :
            (handlers[h].pc = "locking" /\ mutex # 0) => ~ENABLED LockAndStart(h))
    /\ [][(modem' # modem \/ Len(http_log') > Len(http_log)) =>
            \/ main_pc \in {"start", "init"} /\ mutex = 0 /\ handlers = <<>>
            \/ (mutex # 0 \/ mutex' # 0) /\ Cardinality(Rebooting \cup Rebooting') = 1]_vars

C18_Witness ==
    /\ Len(handlers) = MaxRequests
    /\ handlers[1].pc = "locking"
    /\ handlers[MaxRequests].pc = "rebooting"
    /\ mutex = MaxRequests

\* C19: the request is answered 404 when id is not in a fresh interface enumeration,
\* and then neither acquires the modem mutex nor sends a modem request; when id is
\* present it invokes reboot() exactly once and answers 200 if reboot() succeeded
\* and 500 if it failed.
C19_RebootRequestAnswers ==
    /\ [][\A h \in DOMAIN handlers :
            (handlers[h].pc = "lookup" /\ handlers'[h].pc \notin {"lookup", "panicked"}) =>
                IF \E n \in host_ifaces : StartsWithEnx(n) /\ Uuid5(n) = handlers[h].id
                THEN handlers'[h].pc = "locking"
                ELSE /\ handlers'[h].pc = "done"
                     /\ handlers'[h].status = 404
                     /\ UNCHANGED <<mutex, modemVars>>]_vars
    /\ [](\A h \in DOMAIN handlers :
            handlers[h].status = 404 => ~handlers[h].acquired /\ handlers[h].reboots = 0)
    /\ [](\A h \in DOMAIN handlers :
            (handlers[h].pc = "done" /\ handlers[h].status # 404) =>
                /\ handlers[h].reboots = 1
                /\ handlers[h].result = "ok" => handlers[h].status = 200
                /\ handlers[h].result = "err" => handlers[h].status = 500
                /\ handlers[h].result \in {"ok", "err"})
    /\ [][\A h \in DOMAIN handlers :
            (handlers[h].pc = "rebooting" /\ handlers'[h].pc = "done") =>
                /\ outcome'.op = "reboot" /\ outcome'.by = h
                /\ handlers'[h].result = IF outcome'.ok THEN "ok" ELSE "err"]_vars

C19_Witness ==
    /\ Len(handlers) = MaxRequests
    /\ handlers[1].pc = "done" /\ handlers[1].status = 500 /\ handlers[1].id = Id_A
    /\ handlers[MaxRequests].pc = "done" /\ handlers[MaxRequests].status = 404
    /\ handlers[MaxRequests].id = Uuid5("eth0")
    /\ "eth0" \in host_ifaces

----------------------------------------------------------------------------
(* Claims about the Interface Binder, checked on the sessions of Spec.         *)

\* the profiles and the (ttl, buffer) table the claim names
ClaimProfiles == {"Windows", "Linux", "Android", "MacOS", "IOS"}

ClaimTable(fp) ==
    CASE fp = "Windows" -> [ttl |-> 128, buf |-> 65536]
      [] fp = "Linux" -> [ttl |-> 64, buf |-> 29200]
      [] fp = "Android" -> [ttl |-> 64, buf |-> 44800]
      [] fp = "MacOS" -> [ttl |-> 64, buf |-> 65536]
      [] fp = "IOS" -> [ttl |-> 64, buf |-> 32768]

\* the socket connect is called on carries the options of profile fp, all set
\* before the connect
PreparedFor(fp) ==
    /\ socket.ttl = ClaimTable(fp).ttl
    /\ socket.sndbuf = ClaimTable(fp).buf
    /\ socket.rcvbuf = ClaimTable(fp).buf
    /\ \A o \in {"ip_ttl", "so_sndbuf", "so_rcvbuf"} :
        /\ IndexOf(socket.ops, o) > 0
        /\ IndexOf(socket.ops, o) < IndexOf(socket.ops, "connect")

ClaimOrder ==
    <<"socket", "nodelay", "keepalive", "bindtodevice", "ip_ttl", "so_sndbuf",
      "so_rcvbuf", "connect">>

BeforeConnect == {ClaimOrder[i] : i \in 1..(Len(ClaimOrder) - 1)}

\* C25: the Interface Binder performs its steps in the fixed order create socket,
\* TCP_NODELAY and keep-alive, bind to device, IP_TTL, SO_SNDBUF, SO_RCVBUF, connect;
\* the failure of any step before connect is fatal: the OS error is returned and
\* connect is never initiated, so connect is only ever called on a socket that is
\* bound to the device and has all fingerprint options applied.
C25_FixedOrderFatalSteps ==
    /\ Len(socket.ops) <= Len(ClaimOrder)
    /\ \A i \in DOMAIN socket.ops : socket.ops[i] = ClaimOrder[i]
    /\ socket.failed \in BeforeConnect =>
        /\ ~socket.connect_called
        /\ ~socket.connected
        /\ IndexOf(socket.ops, "connect") = 0
        /\ socket.ops = SubSeq(ClaimOrder, 1, Len(socket.ops))
        /\ socket.failed = "socket" \/ socket.ops[Len(socket.ops)] = socket.failed
        /\ pc = "Failed"
        /\ err = "Connect"
    /\ socket.connect_called =>
        /\ socket.ops = ClaimOrder
        /\ socket.nodelay
        /\ socket.keepalive
        /\ socket.device = iface_map[password]
        /\ socket.ttl > 0
        /\ socket.sndbuf > 0
        /\ socket.rcvbuf = socket.sndbuf

C25_Witness ==
    /\ socket.failed = "so_sndbuf"
    /\ socket.ttl > 0
    /\ socket.sndbuf = 0
    /\ ~socket.connect_called
    /\ pc = "Failed"

----------------------------------------------------------------------------
(* Further claims about the Username Parser, checked on ParseSpec.             *)

\* the places where the separator occurs in the input
SepAt == {i \in 1..Len(parse_in.raw) :
            /\ i + Len(SEP) - 1 <= Len(parse_in.raw)
            /\ \A k \in 1..Len(SEP) : parse_in.raw[i + k - 1] = SEP[k]}

FirstSep == CHOOSE i \in SepAt : \A j \in SepAt : i <= j

Suffix == ToAsciiLowercase(SubSeq(parse_in.raw, FirstSep + Len(SEP), Len(parse_in.raw)))

\* C26: parse(raw, default_fp) returns (raw, default_fp) when raw does not contain
\* the separator; otherwise it splits at the first occurrence, returns the prefix as
\* the user in its original letter case, matches the whole remaining suffix
\* case-insensitively against the tag set, and returns a parse error carrying the
\* offending tag when the suffix is no known tag (also when the suffix holds a second
\* separator).
C26_ParseContract ==
    parse_out.done =>
        IF SepAt = {}
        THEN /\ parse_out.ok
             /\ parse_out.user = parse_in.raw
             /\ parse_out.fp = parse_in.default_fp
        ELSE IF Suffix \in {Str_windows, Str_linux, Str_android}
        THEN /\ parse_out.ok
             /\ parse_out.user = SubSeq(parse_in.raw, 1, FirstSep - 1)
             /\ parse_out.fp = ProfileNamed(Suffix)
        ELSE /\ ~parse_out.ok
             /\ parse_out.tag = Suffix

C26_Witness ==
    /\ parse_out.done
    /\ ~parse_out.ok
    /\ parse_in.raw = <<"a">> \o SEP \o <<"b">> \o SEP \o Str_linux
    /\ parse_out.tag = <<"b">> \o SEP \o Str_linux

----------------------------------------------------------------------------
(* Further claims about the Modem Client, checked on ClientSpec.               *)

\* a call of operation op returns in this step
Returns(op) == outcome'.op = op /\ outcome'.by # outcome.by

\* C28: once init() has succeeded, session_token and verification_token are both
\* set in every later state: no operation of the Modem Client ever clears a token,
\* so a client that was initialised never fails a reboot() with the missing-token
\* error.
C28_TokensStaySet ==
    /\ [][(Returns("init") /\ outcome'.ok) => BothTokensSet']_vars
    /\ [][BothTokensSet => BothTokensSet']_vars
    /\ [][\A t \in {"session_token", "verification_token"} :
            modem[t] # None => modem'[t] # None]_vars
    /\ [][(BothTokensSet /\ outcome' # outcome) => outcome'.error # "missing_tokens"]_vars

C28_Witness ==
    /\ BothTokensSet
    /\ outcome.op = "init"
    /\ ~outcome.ok
    /\ outcome.by = MaxCalls
    /\ Len(http_log) = MaxCalls

HasElem(xml, tag) == \E i \in DOMAIN xml : xml[i].tag = tag

\* C29: init() is not atomic on the token pair: when the SesTokInfo response has a
\* <SesInfo> tag but no <TokInfo> tag, init() fails with session_token already
\* overwritten by the new value and verification_token left at its previous value;
\* when the HTTP request itself fails or <SesInfo> is missing, both tokens are left
\* unchanged.
C29_InitNotAtomic ==
    [][Returns("init") =>
        LET resp == outcome'.resp
            got == resp.send_ok /\ resp.text_ok
        IN  /\ (got /\ HasElem(resp.xml, "SesInfo") /\ ~HasElem(resp.xml, "TokInfo")) =>
                    /\ ~outcome'.ok
                    /\ \E i \in DOMAIN resp.xml :
                        resp.xml[i] = Elem("SesInfo", modem'.session_token)
                    /\ modem'.verification_token = modem.verification_token
            /\ (~got \/ ~HasElem(resp.xml, "SesInfo")) =>
                    /\ ~outcome'.ok
                    /\ modem'.session_token = modem.session_token
                    /\ modem'.verification_token = modem.verification_token]_vars

C29_Witness ==
    /\ outcome.op = "init"
    /\ ~outcome.ok
    /\ modem.session_token = "S2"
    /\ modem.verification_token = "T"

\* what every reboot() leaves alone, and the token when no header was received
RebootFrame ==
    /\ modem'.host = modem.host
    /\ modem'.timeout_secs = modem.timeout_secs
    /\ modem'.session_token = modem.session_token
    /\ (~outcome'.sent \/ ~outcome'.resp.send_ok \/ outcome'.resp.header = "absent") =>
            modem'.verification_token = modem.verification_token

\* C30: reboot() changes no Modem Client state other than verification_token: host,
\* timeout and session_token are unchanged by every reboot() call; verification_token
\* is unchanged when the HTTP request fails or the response has no token header, and
\* is replaced by the response header's value otherwise, including when reboot()
\* then returns failure because the body is not OK.
C30_RebootFrame ==
    [][Returns("reboot") =>
        /\ RebootFrame
        /\ (outcome'.sent /\ outcome'.resp.send_ok /\ outcome'.resp.header # "absent") =>
                modem'.verification_token = outcome'.resp.header]_vars

\* C30 as the code has it: the header's value replaces the token when it is a string
\* to_str accepts; with any other value reboot() returns an error and the token is
\* unchanged.
C30_RebootFrameValidHeader ==
    [][Returns("reboot") =>
        /\ RebootFrame
        /\ (outcome'.sent /\ outcome'.resp.send_ok
                /\ outcome'.resp.header \notin {"absent", NonAscii}) =>
                modem'.verification_token = outcome'.resp.header
        /\ (outcome'.sent /\ outcome'.resp.send_ok /\ outcome'.resp.header = NonAscii) =>
                /\ ~outcome'.ok
                /\ modem'.verification_token = modem.verification_token]_vars

C30_Witness ==
    /\ outcome.op = "reboot"
    /\ ~outcome.ok
    /\ outcome.error = "reconnect_failed"
    /\ outcome.resp.header = "T2"
    /\ modem.verification_token = "T2"
    /\ modem.session_token = "S"

----------------------------------------------------------------------------
(* The process: main from start to exit, with the tasks it spawns (the Control *)
(* API server, the metrics server, the SOCKS5 sessions) and SIGINT.            *)

\* connections accepted before the model stops accepting
MaxSessions == 2

\* SIGINTs delivered before the model stops sending them
MaxSignals == 2

\* the results a session task is followed to
SessionResults == {"ok", "Handshake", "Connect"}

Running == proc.exit = "running"

NewTask == [state |-> "running", err |-> NoError, iface_map |-> iface_map,
            failures_before |-> Cardinality(FailedTasks)]

MainInit ==
    /\ iface_map = <<>>
    /\ fingerprint = "Windows"
    /\ SessionFresh
    /\ listener = [state |-> "Unbound", err |-> NoError]
    /\ tasks = <<>>
    /\ log = {}
    /\ ParserIdle
    /\ ModemIdle
    /\ main_pc = "start"
    /\ mutex = 0
    /\ handlers = <<>>
    /\ host_ifaces \in SUBSET HostNames
    /\ ProcIdle

\* main: HuaweiE337::new(..), then init() sends its request
StartupInit ==
    /\ Running
    /\ MainInitStart

\* main from the return of init() to the await of the SOCKS5 bind: `?` on the
\* result, the API task and the metrics task are spawned, list_interfaces() fills
\* the map (its unwrap panics when get_if_addrs fails), run() is called
StartupSpawn ==
    /\ Running
    /\ main_pc = "init"
    /\ \E resp \in Responses(SesTokDocs, {<<>>}), enum_ok \in BOOLEAN :
        LET r == RefreshSessionToken(modem, resp)
        IN  /\ modem' = r.modem
            /\ outcome' = Returned("init", 0, r, TRUE, resp)
            /\ IF r.error = "panic"
               THEN /\ proc' = [proc EXCEPT !.exit = "101"]
                    /\ UNCHANGED <<main_pc, iface_map>>
               ELSE IF ~r.ok
               THEN /\ proc' = [proc EXCEPT !.exit = "1"]
                    /\ UNCHANGED <<main_pc, iface_map>>
               ELSE IF ~enum_ok
               THEN /\ proc' = [proc EXCEPT !.api = "binding", !.metrics = "binding",
                                            !.exit = "101"]
                    /\ UNCHANGED <<main_pc, iface_map>>
               ELSE /\ proc' = [proc EXCEPT !.api = "binding", !.metrics = "binding"]
                    /\ iface_map' = ListInterfaces(host_ifaces)
                    /\ main_pc' = "socks5_bind"
    /\ inflight' = NoCall
    /\ UNCHANGED <<http_log, mutex, handlers, host_ifaces>>
    /\ UNCHANGED <<fingerprint, pc, err, client_open, reads, written, hs_req, pwd_req,
                   username, session_fp, password, auth_ok, req, socket, relay>>
    /\ UNCHANGED <<acceptorVars, parseVars>>

\* something ended run(): main logs the error, returns Ok(()) and drops the
\* metrics server's shutdown sender
MainReturns(e) ==
    /\ listener' = [state |-> "Stopped", err |-> e]
    /\ log' = log \cup {[peer |-> 0, err |-> e]}
    /\ main_pc' = "returned"
    /\ proc' = [proc EXCEPT !.metrics = IF @ = "serving" THEN "shutting_down" ELSE @]

\* Socks5::run: TcpListener::bind(self.listen_addr)
SocksBind ==
    /\ Running
    /\ main_pc = "socks5_bind"
    /\ \E ok \in BOOLEAN :
        IF ok
        THEN /\ listener' = [state |-> "Listening", err |-> NoError]
             /\ main_pc' = "accepting"
             /\ UNCHANGED <<log, proc>>
        ELSE MainReturns("Listen")
    /\ tasks' = tasks
    /\ UNCHANGED <<sessionVars, parseVars, modemVars, mutex, handlers, host_ifaces>>

\* variant: each connection gets a map from a fresh enumeration
MainAcceptFreshMap ==
    /\ proc.exit = "running"
    /\ main_pc = "accepting"
    /\ \E ok \in BOOLEAN :
        IF ok
        THEN /\ Len(tasks) < MaxSessions
             /\ tasks' = Append(tasks, [NewTask EXCEPT !.iface_map = ListInterfaces(host_ifaces)])
             /\ UNCHANGED <<listener, log, main_pc, proc>>
        ELSE /\ MainReturns("Accept")
             /\ tasks' = tasks
    /\ UNCHANGED <<sessionVars, parseVars, modemVars, mutex, handlers, host_ifaces>>

\* variant: an accept error is logged and the loop goes on
MainAcceptGoesOn ==
    /\ proc.exit = "running"
    /\ main_pc = "accepting"
    /\ \E ok \in BOOLEAN :
        IF ok
        THEN /\ Len(tasks) < MaxSessions
             /\ tasks' = Append(tasks, NewTask)
             /\ UNCHANGED <<listener, log, main_pc, proc>>
        ELSE /\ listener' = [state |-> "Listening", err |-> "Accept"]
             /\ log' = log \cup {[peer |-> 0, err |-> "Accept"]}
             /\ UNCHANGED <<tasks, main_pc, proc>>
    /\ UNCHANGED <<sessionVars, parseVars, modemVars, mutex, handlers, host_ifaces>>

\* one turn of the accept loop: a connection gets a task with a clone of the
\* server's map, or accept fails, run() returns and main returns
MainAccept ==
    /\ proc.exit = "running"
    /\ main_pc = "accepting"
    /\ \E ok \in BOOLEAN :
        IF ok
        THEN /\ Len(tasks) < MaxSessions
             /\ tasks' = Append(tasks, NewTask)
             /\ UNCHANGED <<listener, log, main_pc, proc>>
        ELSE /\ MainReturns("Accept")
             /\ tasks' = tasks
    /\ UNCHANGED <<sessionVars, parseVars, modemVars, mutex, handlers, host_ifaces>>

\* a session task ends while the process runs
SessionEnds(i) ==
    /\ Running
    /\ i \in DOMAIN tasks
    /\ tasks[i].state = "running"
    /\ \E r \in SessionResults :
        IF r = "ok"
        THEN /\ tasks' = [tasks EXCEPT ![i].state = "done"]
             /\ log' = log
        ELSE /\ tasks' = [tasks EXCEPT ![i].state = "failed", ![i].err = r]
             /\ log' = log \cup {[peer |-> i, err |-> r]}
    /\ listener' = listener
    /\ UNCHANGED <<procVars, sessionVars, parseVars, modemVars, apiVars>>

\* the API task: API::run binds its listener; `expect("API run error")` panics the
\* task when the bind fails; once serving, the shutdown future has registered
\* tokio's handler for SIGINT
ApiTaskBind ==
    /\ Running
    /\ proc.api = "binding"
    /\ \E ok \in BOOLEAN :
        proc' = IF ok THEN [proc EXCEPT !.api = "serving", !.ctrl_c = TRUE]
                      ELSE [proc EXCEPT !.api = "panicked"]
    /\ UNCHANGED <<sessionVars, acceptorVars, parseVars, modemVars, apiVars>>

\* the metrics task: bind, or panic through unwrap_or_else
MetricsTaskBind ==
    /\ Running
    /\ proc.metrics = "binding"
    /\ \E ok \in BOOLEAN :
        proc' = [proc EXCEPT !.metrics = IF ok THEN "serving" ELSE "panicked"]
    /\ UNCHANGED <<sessionVars, acceptorVars, parseVars, modemVars, apiVars>>

\* a SIGINT is delivered: with tokio's handler registered it completes ctrl_c(), which
\* starts the graceful shutdown of the API server; without, it ends the process
Sigint ==
    /\ Running
    /\ proc.sigints < MaxSignals
    /\ proc' = IF proc.ctrl_c
               THEN [proc EXCEPT !.sigints = @ + 1,
                                 !.api = IF @ = "serving" THEN "shutting_down" ELSE @]
               ELSE [proc EXCEPT !.sigints = @ + 1, !.exit = "signal"]
    /\ UNCHANGED <<sessionVars, acceptorVars, parseVars, modemVars, apiVars>>

\* axum::serve of the API returns, api.run() returns Ok and its task ends
ApiShutdownDone ==
    /\ Running
    /\ proc.api = "shutting_down"
    /\ proc' = [proc EXCEPT !.api = "stopped"]
    /\ UNCHANGED <<sessionVars, acceptorVars, parseVars, modemVars, apiVars>>

\* axum::serve of the metrics server returns and its task ends
MetricsShutdownDone ==
    /\ Running
    /\ proc.metrics = "shutting_down"
    /\ proc' = [proc EXCEPT !.metrics = "stopped"]
    /\ UNCHANGED <<sessionVars, acceptorVars, parseVars, modemVars, apiVars>>

\* main has returned Ok(()): the runtime is dropped, which drops every task still
\* running, and the process exits with code 0
ProcessExit ==
    /\ Running
    /\ main_pc = "returned"
    /\ proc' = [proc EXCEPT !.exit = "0"]
    /\ tasks' = [i \in DOMAIN tasks |->
                    IF tasks[i].state = "running"
                    THEN [tasks[i] EXCEPT !.state = "killed"]
                    ELSE tasks[i]]
    /\ UNCHANGED <<listener, log>>
    /\ UNCHANGED <<sessionVars, parseVars, modemVars, apiVars>>

MainHostChange ==
    /\ Running
    /\ HostChange

MainNext ==
    \/ StartupInit
    \/ StartupSpawn
    \/ SocksBind
    \/ MainAccept
    \/ \E i \in 1..MaxSessions : SessionEnds(i)
    \/ ApiTaskBind
    \/ MetricsTaskBind
    \/ Sigint
    \/ ApiShutdownDone
    \/ MetricsShutdownDone
    \/ ProcessExit
    \/ MainHostChange

MainSpec == MainInit /\ [][MainNext]_vars

\* the steps that need nothing from outside the process are taken when they can be
MainFairness ==
    /\ WF_vars(StartupSpawn)
    /\ WF_vars(SocksBind)
    /\ WF_vars(ApiTaskBind)
    /\ WF_vars(MetricsTaskBind)
    /\ WF_vars(ApiShutdownDone)
    /\ WF_vars(MetricsShutdownDone)
    /\ WF_vars(ProcessExit)

MainFairSpec == MainSpec /\ MainFairness

\* ---------------------------------------------------------------------------
\* Process claims
\* ---------------------------------------------------------------------------

InitFailed == outcome.op = "init" /\ ~outcome.ok

SocksBindFailed == listener.err = "Listen"

ApiBindFailed == proc.api = "panicked"

MetricsBindFailed == proc.metrics = "panicked"

NonZeroExits == {"1", "101", "signal"}

\* C22: a process that has ended after a listener (SOCKS5, Control API, metrics)
\* failed to bind has ended with a non-zero exit code; when the Modem Client's init()
\* has failed the process has ended with a non-zero code and no listener was started
C22_StartupFailureExitsNonZero ==
    /\ (~Running /\ (SocksBindFailed \/ ApiBindFailed \/ MetricsBindFailed))
            => proc.exit \in NonZeroExits
    /\ InitFailed => /\ proc.exit \in NonZeroExits
                     /\ proc.api = "none"
                     /\ proc.metrics = "none"
                     /\ listener.state = "Unbound"

\* a SIGINT has reached the process with startup complete: the three listeners
\* bound, the accept loop running, tokio's handler registered
SigintWhileServing ==
    /\ Running
    /\ proc.sigints > 0
    /\ proc.ctrl_c
    /\ proc.api \in {"shutting_down", "stopped"}
    /\ proc.metrics = "serving"
    /\ main_pc = "accepting"

ShutdownInitiated == {"shutting_down", "stopped"}

\* C23: once a SIGINT has been delivered to the running process, the graceful
\* shutdown of the Control API server and of the metrics server is initiated and the
\* process ends with exit code 0
C23_SigintShutsDown ==
    SigintWhileServing ~> /\ proc.exit = "0"
                          /\ proc.api \in ShutdownInitiated
                          /\ proc.metrics \in ShutdownInitiated

\* main is past list_interfaces(): the server's map is built
StartupDone == main_pc \in {"socks5_bind", "accepting", "returned"}

\* C24: the Interface Map is filled once at startup and never changes afterwards:
\* the map of every session is the server's map, the server's map is the same after
\* every step that follows startup, no step changes the map a session holds, and a
\* change of the host's interfaces changes neither
C24_InterfaceMapImmutable ==
    /\ [](\A i \in DOMAIN tasks : tasks[i].iface_map = iface_map)
    /\ [][StartupDone => iface_map' = iface_map]_vars
    /\ [][\A i \in DOMAIN tasks : tasks'[i].iface_map = tasks[i].iface_map]_vars
    /\ [][host_ifaces' # host_ifaces =>
            /\ iface_map' = iface_map
            /\ \A i \in DOMAIN tasks : tasks'[i].iface_map = tasks[i].iface_map]_vars

\* a session runs on the startup map while a fresh enumeration would give another
C24_Witness ==
    /\ Running
    /\ StartupDone
    /\ ListInterfaces(host_ifaces) # iface_map
    /\ \E i \in DOMAIN tasks : tasks[i].state = "running" /\ tasks[i].iface_map = iface_map

AcceptFailed == listener.err = "Accept"

HandlerStep(h) == Lookup(h) \/ LockAndStart(h) \/ HandlerRebootFinish(h)

\* the runtime polls every handler that can go on, the mutex wakes its waiters, and
\* each reboot() returns (its HTTP call ends by response or timeout)
ApiFairness == \A h \in 1..MaxRequests : WF_vars(HandlerStep(h))

ApiFairSpec == ApiSpec /\ ApiFairness

Finished == {"done", "cancelled", "panicked"}

WaitingOnMutex(h) == h \in DOMAIN handlers /\ handlers[h].pc = "locking"

AcquiredAndAnswered(h) ==
    /\ h \in DOMAIN handlers
    /\ handlers[h].pc = "done"
    /\ handlers[h].acquired
    /\ handlers[h].status \in {200, 500}

ClientGone(h) == h \in DOMAIN handlers /\ handlers[h].pc = "cancelled"

\* C31: the modem mutex is released on every exit path of a reboot request: it is
\* free after the step in which reboot() returns, whatever the result, and is never
\* held by a handler that has finished; and no request waits on it forever: a
\* request waiting on the mutex acquires it and is answered, unless its client goes
\* away first and the handler is dropped from the queue
C31_MutexReleasedNoWaitForever ==
    /\ [][\A h \in DOMAIN handlers :
            (handlers[h].pc = "rebooting" /\ handlers'[h].pc # "rebooting") =>
                mutex' = 0]_vars
    /\ [](\A h \in DOMAIN handlers : handlers[h].pc \in Finished => mutex # h)
    /\ [](mutex # 0 => mutex \in DOMAIN handlers /\ handlers[mutex].pc = "rebooting")
    /\ \A h \in 1..MaxRequests : WaitingOnMutex(h) ~> (AcquiredAndAnswered(h) \/ ClientGone(h))

\* a request that waited holds the mutex after the request before it failed in
\* reboot() and was answered 500
C31_Witness ==
    /\ Len(handlers) = MaxRequests
    /\ handlers[MaxRequests].pc = "done"
    /\ handlers[MaxRequests].status = 500
    /\ handlers[MaxRequests].reboots = 1
    /\ handlers[1].pc = "rebooting"
    /\ mutex = 1

====
